---------------------------- MODULE Spec2Model ----------------------------
(***************************************************************************)
(* A model of the NRR simulation core of ipl-nrr-backend: the run-rate     *)
(* arithmetic (ipl_api/nrr_math.py), the ranking table                     *)
(* (ipl_api/points_table.py), the match simulator (ipl_api/simulator.py),  *)
(* the Monte Carlo planner (ipl_api/planner.py) and the threshold solvers  *)
(* (ipl_api/thresholds.py).                                                *)
(*                                                                         *)
(* Python objects are modelled by a heap of state objects: "base" is the   *)
(* dict of TeamRow the caller owns, "copy" is the object a deepcopy or     *)
(* _clone_state allocates.  An Optional value is a sequence of length 0    *)
(* (None) or 1.  An overs string "w.b" is the record of its two integer    *)
(* parts; frac = None stands for a string without a ".".                   *)
(* A net run rate is an exact rational <<numerator, denominator>>; the     *)
(* code computes it in binary floating point.                              *)
(***************************************************************************)
EXTENDS Integers, Sequences, FiniteSets, TLC

VARIABLES
    heap,      \* [Objs -> [Teams -> row]] : the state dicts alive
    order,     \* insertion order of the state dict (list(state.values()))
    pre,       \* heap["base"] as it was when the last call began
    call,      \* the operation last called and its arguments
    outcome,   \* "none" | "ok" | "error" : how the last call ended
    table,     \* the ranked table the last call returned (<<>> if none)
    nmatches,  \* number of library calls made on the state so far
    pc,        \* where a planner or solver call stands
    run,       \* the locals of monte_carlo_planner and _run_one
    search     \* the locals of a threshold solver

vars == <<heap, order, pre, call, outcome, table, nmatches, pc, run, search>>

----------------------------------------------------------------------------
(* Bounds and small input domains *)

MaxMatches == 2

Teams == {"A", "B", "C"}
Names == Teams \cup {"X"}          \* "X" is a team the state does not hold
Objs == {"base", "copy"}

None == <<>>
Some(v) == <<v>>
IsNone(o) == Len(o) = 0
Val(o) == o[1]

MAX_BALLS_T20 == 120

Overs(w, f) == [whole |-> w, frac |-> f]

----------------------------------------------------------------------------
(* ipl_api/nrr_math.py *)

\* overs_to_balls: None (a ValueError) or Some(balls)
\* Variant: ".6" is taken as six balls.
overs_to_balls_upto6(o) ==
    IF o.whole < 0 THEN None
    ELSE IF IsNone(o.frac) THEN Some(o.whole * 6)
    ELSE IF Val(o.frac) < 0 \/ Val(o.frac) > 6 THEN None
    ELSE Some(o.whole * 6 + Val(o.frac))

overs_to_balls(o) ==
    IF IsNone(o.frac)
    THEN IF o.whole < 0 THEN None ELSE Some(o.whole * 6)
    ELSE IF o.whole < 0 THEN None
         ELSE IF Val(o.frac) < 0 \/ Val(o.frac) > 5 THEN None
         ELSE Some(o.whole * 6 + Val(o.frac))

\* The characters of str(overs).strip() as a sequence, e.g. <<"1", "9", ".", "4">>
Digits == <<"0", "1", "2", "3", "4", "5", "6", "7", "8", "9">>
IsDigit(c) == \E k \in 1..10 : Digits[k] = c
DigitVal(c) == (CHOOSE k \in 1..10 : Digits[k] = c) - 1

\* the value of a non-empty run of decimal digits, None for anything else
RECURSIVE NatOf(_, _)
NatOf(chars, acc) ==
    IF chars = <<>> THEN Some(acc)
    ELSE IF ~IsDigit(Head(chars)) THEN None
    ELSE NatOf(Tail(chars), 10 * acc + DigitVal(Head(chars)))

\* int(text) for a text of digits, "-" and "." : None where int() raises
IntOf(chars) ==
    IF chars = <<>> THEN None
    ELSE IF Head(chars) = "-"
    THEN IF Tail(chars) = <<>> \/ IsNone(NatOf(Tail(chars), 0)) THEN None
         ELSE Some(-Val(NatOf(Tail(chars), 0)))
    ELSE NatOf(chars, 0)

HasDot(chars) == \E k \in DOMAIN chars : chars[k] = "."
FirstDot(chars) == CHOOSE k \in DOMAIN chars : chars[k] = "." /\ \A j \in 1..(k - 1) : chars[j] # "."

\* Lines 38-55 of overs_to_balls: the text split at its first "." and its
\* parts read by int(); None where a ValueError is raised
SplitOvers(chars) ==
    IF chars = <<>> THEN None
    ELSE IF ~HasDot(chars)
    THEN IF IsNone(IntOf(chars)) THEN None ELSE Some(Overs(Val(IntOf(chars)), None))
    ELSE LET k == FirstDot(chars)
             ov_part == SubSeq(chars, 1, k - 1)
             ball_part == SubSeq(chars, k + 1, Len(chars))
             ov_i == IF ov_part = <<>> THEN Some(0) ELSE IntOf(ov_part)
             balls_i == IF ball_part = <<>> THEN Some(0) ELSE IntOf(ball_part)
         IN  IF IsNone(ov_i) \/ IsNone(balls_i) THEN None
             ELSE Some(Overs(Val(ov_i), Some(Val(balls_i))))

\* overs_to_balls on the text of the overs
overs_to_balls_text(chars) ==
    IF IsNone(SplitOvers(chars)) THEN None ELSE overs_to_balls(Val(SplitOvers(chars)))

\* Variant: an all-out innings is credited with the balls it lasted.
normalize_innings_balls_actual(balls, all_out) ==
    IF balls < 0 THEN None ELSE Some(balls)

\* normalize_innings_balls: None (a ValueError) or Some(balls)
normalize_innings_balls(balls, all_out) ==
    IF balls < 0 THEN None
    ELSE IF balls = 0 THEN Some(0)
    ELSE IF all_out THEN Some(MAX_BALLS_T20) ELSE Some(balls)

\* the exact value of run_rate, as a rational: runs / (balls / 6), and 0
\* when no ball was bowled
run_rate(runs, balls) ==
    IF balls <= 0 THEN <<0, 1>> ELSE <<6 * runs, balls>>

\* the exact value of nrr, as a rational with a positive denominator
nrr(row) ==
    LET f == run_rate(row.runs_for, row.balls_for)
        a == run_rate(row.runs_against, row.balls_against)
    IN  <<f[1] * a[2] - a[1] * f[2], f[2] * a[2]>>

RatLess(x, y) == x[1] * y[2] < y[1] * x[2]
RatEq(x, y) == x[1] * y[2] = y[1] * x[2]

\* ---- float: the IEEE 754 double of Python, kept exactly ----
\* A double is [neg, bits, exp]: its magnitude is the binary number bits
\* (most significant bit first, at most 53 of them, first and last bit 1)
\* times 2^exp; 0.0 has no bits.

FloatZero == [neg |-> FALSE, bits |-> <<>>, exp |-> 0]

\* the binary digits of a natural number, most significant first
RECURSIVE NatBits(_)
NatBits(n) == IF n = 0 THEN <<>> ELSE Append(NatBits(n \div 2), n % 2)

Zeros(k) == [i \in 1..k |-> 0]

\* the places of the first 1, the last 1 and the last 0, 0 when there is none
FirstOne(bits) ==
    IF \A i \in DOMAIN bits : bits[i] = 0 THEN 0
    ELSE CHOOSE i \in DOMAIN bits : bits[i] = 1 /\ \A j \in 1..(i - 1) : bits[j] = 0

LastOne(bits) ==
    IF \A i \in DOMAIN bits : bits[i] = 0 THEN 0
    ELSE CHOOSE i \in DOMAIN bits : bits[i] = 1 /\ \A j \in (i + 1)..Len(bits) : bits[j] = 0

LastZero(bits) ==
    IF \A i \in DOMAIN bits : bits[i] = 1 THEN 0
    ELSE CHOOSE i \in DOMAIN bits : bits[i] = 0 /\ \A j \in (i + 1)..Len(bits) : bits[j] = 1

\* the digits from place first on, none for place 0
From(bits, first) == IF first = 0 THEN <<>> ELSE SubSeq(bits, first, Len(bits))

DropLeadingZeros(bits) == From(bits, FirstOne(bits))

\* bits with a 1 at place zero and 0 after it; 1 and zeros for place 0
IncAt(bits, zero) ==
    IF zero = 0 THEN <<1>> \o Zeros(Len(bits))
    ELSE [i \in 1..Len(bits) |-> IF i < zero THEN bits[i] ELSE IF i = zero THEN 1 ELSE 0]

\* bits + 1, one bit longer when every bit was 1
IncBits(bits) == IncAt(bits, LastZero(bits))

\* the double of the digits up to place last, the rest being zeros
UpTo(neg, bits, exp, last) ==
    IF last = 0 THEN FloatZero
    ELSE [neg |-> neg, bits |-> SubSeq(bits, 1, last), exp |-> exp + Len(bits) - last]

\* the double without its trailing zero bits
Canonical(neg, bits, exp) == UpTo(neg, bits, exp, LastOne(bits))

\* Round to nearest, ties to even: the first 53 digits of a number that
\* starts with a 1 and has more, one added when the 54th digit is 1 and
\* either a later digit is not 0 or the 53rd is 1; sticky says that the
\* exact value has nonzero digits after those given
RoundedBits(bits, sticky) ==
    IF bits[54] = 1 /\ (sticky \/ bits[53] = 1 \/ \E i \in 55..Len(bits) : bits[i] = 1)
    THEN IncBits(SubSeq(bits, 1, 53))
    ELSE SubSeq(bits, 1, 53)

\* the double nearest to bits * 2^exp
RoundToDouble(neg, bits, sticky, exp) ==
    IF Len(bits) <= 53 THEN Canonical(neg, bits, exp)
    ELSE Canonical(neg, RoundedBits(bits, sticky), exp + Len(bits) - 53)

\* Natural numbers of up to 60 bits as four limbs of 15 bits, lowest first
Limb == 32768

\* the bit of weight 2^k of a binary number
BitAt(bits, k) == IF k < Len(bits) THEN bits[Len(bits) - k] ELSE 0

RECURSIVE LimbOf(_, _, _)
LimbOf(bits, lo, i) ==
    IF i = 15 THEN 0 ELSE BitAt(bits, lo + i) + 2 * LimbOf(bits, lo, i + 1)

BitsToLimbs(bits) == [j \in 1..4 |-> LimbOf(bits, 15 * (j - 1), 0)]

\* the limbs of a number given limb by limb with limbs of any size
Carried(x) ==
    <<x[1] % Limb,
      (x[2] + x[1] \div Limb) % Limb,
      (x[3] + (x[2] + x[1] \div Limb) \div Limb) % Limb,
      x[4] + (x[3] + (x[2] + x[1] \div Limb) \div Limb) \div Limb>>

LimbsDouble(x) == Carried([j \in 1..4 |-> 2 * x[j]])

LimbsGeq(x, y) ==
    \/ x[4] > y[4]
    \/ x[4] = y[4] /\ x[3] > y[3]
    \/ x[4] = y[4] /\ x[3] = y[3] /\ x[2] > y[2]
    \/ x[4] = y[4] /\ x[3] = y[3] /\ x[2] = y[2] /\ x[1] >= y[1]

\* x - y for x >= y: every limb but the highest borrows a Limb from the next
LimbsMinus(x, y) ==
    Carried(<<x[1] - y[1] + Limb, x[2] - y[2] + Limb - 1,
              x[3] - y[3] + Limb - 1, x[4] - y[4] - 1>>)

LimbsZero == <<0, 0, 0, 0>>

\* q with the next binary digit of the quotient, r2 being twice q.r
NextBit(q, r2, d) ==
    IF LimbsGeq(r2, d)
    THEN [r |-> LimbsMinus(r2, d), bits |-> Append(q.bits, 1), n |-> q.n + 1]
    ELSE [r |-> r2, bits |-> IF q.bits = <<>> THEN q.bits ELSE Append(q.bits, 0),
          n |-> q.n + 1]

\* Long division: at most k more binary digits of r / d after the n digits
\* in bits, for r < d, until 54 digits from the first 1 are known or
\* nothing is left; q is [r, bits, n]
RECURSIVE MoreBits(_, _, _)
MoreBits(q, d, k) ==
    IF k = 0 \/ q.r = LimbsZero \/ Len(q.bits) >= 54 THEN q
    ELSE MoreBits(NextBit(q, LimbsDouble(q.r), d), d, k - 1)

\* the digits of the quotient, eleven at a time, at most c times
RECURSIVE QuotientBits(_, _, _)
QuotientBits(q, d, c) ==
    IF c = 0 \/ q.r = LimbsZero THEN q
    ELSE QuotientBits(MoreBits(q, d, 11), d, c - 1)

\* the quotient q, rounded, times 2^exp
QuotientOf(neg, q, exp) ==
    IF q.bits = <<>> THEN FloatZero
    ELSE RoundToDouble(neg, q.bits, q.r # LimbsZero, exp - q.n)

\* n / d times 2^exp for n and d of the same number of bits: the quotient
\* lies between 1/2 and 2, and its first digit is known
DivLimbs(neg, n, d, exp) ==
    IF n = d THEN Canonical(neg, <<1>>, exp)
    ELSE QuotientOf(neg,
                    QuotientBits([r |-> IF LimbsGeq(n, d) THEN LimbsMinus(n, d) ELSE n,
                                  bits |-> IF LimbsGeq(n, d) THEN <<1>> ELSE <<>>,
                                  n |-> 0], d, 5),
                    exp)

\* bits with zeros after them, len digits in all
PadTo(bits, len) == bits \o Zeros(len - Len(bits))

\* the quotient of two binary numbers brought to the same length len
DivBits(neg, x, y, exp, len) ==
    DivLimbs(neg, BitsToLimbs(PadTo(x, len)), BitsToLimbs(PadTo(y, len)),
             exp + Len(x) - Len(y))

\* a / b in doubles, for doubles a and b that are not 0.0
FloatDiv(a, b) ==
    DivBits(a.neg # b.neg, a.bits, b.bits, a.exp - b.exp,
            IF Len(a.bits) > Len(b.bits) THEN Len(a.bits) ELSE Len(b.bits))

\* float(n) for an integer n of fewer than 54 bits
FloatOfInt(n) == Canonical(n < 0, NatBits(IF n < 0 THEN -n ELSE n), 0)

\* the digits of x after place i make a smaller number than those of y
LessAfter(x, y, i) ==
    \E k \in (i + 1)..Len(x) :
        x[k] < y[k] /\ \A j \in (i + 1)..(k - 1) : x[j] = y[j]

\* x < y for binary numbers of the same length
BitsLess(x, y) == LessAfter(x, y, 0)

\* x - y for binary numbers of the same length, x >= y: a place borrows
\* when the digits after it make a smaller number in x than in y
BitsMinus(x, y) ==
    [i \in 1..Len(x) |->
        (x[i] - y[i] - (IF LessAfter(x, y, i) THEN 1 ELSE 0) + 2) % 2]

\* binary numbers x and y of exponent exp, with zeros before the shorter
SameLength(x, y, exp) ==
    [x |-> Zeros(Len(y) - Len(x)) \o x, y |-> Zeros(Len(x) - Len(y)) \o y, exp |-> exp]

\* two doubles brought to the exponent exp, the smaller of theirs
AlignedAt(a, b, exp) ==
    SameLength(a.bits \o Zeros(a.exp - exp), b.bits \o Zeros(b.exp - exp), exp)

\* the magnitudes of two doubles as binary numbers of one length and one
\* exponent
Aligned(a, b) ==
    IF a.exp < b.exp THEN AlignedAt(a, b, a.exp) ELSE AlignedAt(a, b, b.exp)

AlignedLess(al) == BitsLess(al.x, al.y)

MagnitudeLess(a, b) == AlignedLess(Aligned(a, b))

\* x < y on doubles
FloatLess(a, b) ==
    IF a.neg # b.neg THEN a.neg
    ELSE MagnitudeLess(IF a.neg THEN b ELSE a, IF a.neg THEN a ELSE b)

\* the difference of two aligned magnitudes, negative when less says so
Difference(al, less) ==
    RoundToDouble(less,
                  DropLeadingZeros(BitsMinus(IF less THEN al.y ELSE al.x,
                                             IF less THEN al.x ELSE al.y)),
                  FALSE, al.exp)

DifferenceOf(al) ==
    IF al.x = al.y THEN FloatZero ELSE Difference(al, AlignedLess(al))

\* a - b in doubles, for doubles that are not negative
FloatMinus(a, b) == DifferenceOf(Aligned(a, b))

\* x / y as the code divides: run_rate gives 0.0 for overs of 0.0, and
\* 0 / y is 0.0
Divided(x, y) ==
    IF x = FloatZero \/ y = FloatZero THEN FloatZero ELSE FloatDiv(x, y)

\* xs[1] / (xs[2] / ... / float(xs[n])) for integers xs
RECURSIVE Ratio(_)
Ratio(xs) ==
    IF Len(xs) = 1 THEN FloatOfInt(xs[1])
    ELSE Divided(FloatOfInt(xs[1]), Ratio(Tail(xs)))

\* balls_to_overs_float: balls / 6.0, and 0.0 for no balls
balls_to_overs_float(balls) ==
    IF balls <= 0 THEN FloatZero ELSE Ratio(<<balls, 6>>)

\* run_rate(runs, balls_to_overs_float(balls)) as the double the code
\* computes: runs / (balls / 6.0)
run_rate_float(runs, balls) ==
    IF balls <= 0 THEN FloatZero ELSE Ratio(<<runs, balls, 6>>)

\* rr_for - rr_against
RateDifference(rate) == FloatMinus(rate["for"], rate["against"])

\* nrr as the double the code computes
nrr_float(row) ==
    RateDifference([f \in {"for", "against"} |->
        run_rate_float(IF f = "for" THEN row.runs_for ELSE row.runs_against,
                       IF f = "for" THEN row.balls_for ELSE row.balls_against)])

\* Variant: the side batting second is charged its own runs as runs against.
apply_match_batting_first_own_runs(st, team1, team2, team1_runs, team2_runs, t1_balls, t2_balls) ==
    IF t1_balls <= 0 \/ t2_balls <= 0
    THEN [ok |-> FALSE, st |-> st]
    ELSE LET s1 == [st EXCEPT ![team1].runs_for = @ + team1_runs,
                              ![team1].balls_for = @ + t1_balls,
                              ![team1].runs_against = @ + team2_runs,
                              ![team1].balls_against = @ + t2_balls]
             s2 == [s1 EXCEPT ![team2].runs_for = @ + team2_runs,
                              ![team2].balls_for = @ + t2_balls,
                              ![team2].runs_against = @ + team2_runs,
                              ![team2].balls_against = @ + t1_balls]
         IN  [ok |-> TRUE, st |-> s2]

\* apply_match_batting_first with both overrides given:
\* [ok, st] ; on a ValueError nothing has been written
apply_match_batting_first(st, team1, team2, team1_runs, team2_runs, t1_balls, t2_balls) ==
    IF t1_balls <= 0 \/ t2_balls <= 0
    THEN [ok |-> FALSE, st |-> st]
    ELSE LET s1 == [st EXCEPT ![team1].runs_for = @ + team1_runs,
                              ![team1].balls_for = @ + t1_balls,
                              ![team1].runs_against = @ + team2_runs,
                              ![team1].balls_against = @ + t2_balls]
             s2 == [s1 EXCEPT ![team2].runs_for = @ + team2_runs,
                              ![team2].balls_for = @ + t2_balls,
                              ![team2].runs_against = @ + team1_runs,
                              ![team2].balls_against = @ + t1_balls]
         IN  [ok |-> TRUE, st |-> s2]

----------------------------------------------------------------------------
(* ipl_api/points_table.py *)

TeamRow(played, won, lost, nr, tied, points, rf, bf, ra, ba) ==
    [played |-> played, won |-> won, lost |-> lost, nr |-> nr, tied |-> tied,
     points |-> points, runs_for |-> rf, balls_for |-> bf,
     runs_against |-> ra, balls_against |-> ba]

Bump(st, t, f, d) == [st EXCEPT ![t][f] = @ + d]

\* the first of two doubles is less than the second
FirstLess(key) == FloatLess(key[1], key[2])

\* nrr(x.agg) < nrr(y.agg) on the doubles.  Two exact values that differ,
\* with cross products within the integers of the model, differ by more
\* than 2^-31, and the three roundings move a double by less than 2^-34 for
\* runs below 4096: the doubles then compare as the exact values do, and
\* only equal exact values need the doubles themselves.
NrrLess(x, y) ==
    IF ~RatEq(nrr(x), nrr(y)) THEN RatLess(nrr(x), nrr(y))
    ELSE IF /\ x.runs_for = y.runs_for /\ x.balls_for = y.balls_for
            /\ x.runs_against = y.runs_against /\ x.balls_against = y.balls_against
    THEN FALSE
    ELSE FirstLess([i \in 1..2 |-> nrr_float(IF i = 1 THEN x ELSE y)])

\* Variant: the key is the points alone.
KeyLess_points_only(x, y) == x.points < y.points

\* The sort key (points, nrr) of compute_sorted_table.key_fn, compared as
\* Python compares tuples.
KeyLess(x, y) ==
    \/ x.points < y.points
    \/ x.points = y.points /\ NrrLess(x, y)

\* sorted(rows, key=key_fn, reverse=True): a stable descending sort, as an
\* insertion of each row behind every row whose key is not smaller.
RECURSIVE InsertDesc(_, _, _)
InsertDesc(st, sorted, t) ==
    IF sorted = <<>> THEN <<t>>
    ELSE IF KeyLess(st[Head(sorted)], st[t])
         THEN <<t>> \o sorted
         ELSE <<Head(sorted)>> \o InsertDesc(st, Tail(sorted), t)

RECURSIVE SortDesc(_, _, _)
SortDesc(st, rows, acc) ==
    IF rows = <<>> THEN acc
    ELSE SortDesc(st, Tail(rows), InsertDesc(st, acc, Head(rows)))

\* the record of the row at place idx of the sorted rows
SortedRow(st, team, idx) ==
    [pos |-> idx, team |-> team,
     played |-> st[team].played,
     won |-> st[team].won,
     lost |-> st[team].lost,
     nr |-> st[team].nr,
     tied |-> st[team].tied,
     points |-> st[team].points,
     runs_for |-> st[team].runs_for,
     balls_for |-> st[team].balls_for,
     runs_against |-> st[team].runs_against,
     balls_against |-> st[team].balls_against]

TableOf(st, sorted_rows) ==
    [idx \in 1..Len(sorted_rows) |-> SortedRow(st, sorted_rows[idx], idx)]

\* compute_sorted_table: one record per row, "pos" counted from 1
compute_sorted_table(st, rows) == TableOf(st, SortDesc(st, rows, <<>>))

\* Variant: the loser of a win is given a point too.
apply_result_loser_point(st, a, b, result, winner) ==
    LET p == Bump(Bump(st, a, "played", 1), b, "played", 1)
    IN  IF result = "NR"
        THEN [ok |-> TRUE,
              st |-> Bump(Bump(Bump(Bump(p, a, "nr", 1), b, "nr", 1),
                               a, "points", 1), b, "points", 1)]
        ELSE IF result = "TIE"
        THEN [ok |-> TRUE,
              st |-> Bump(Bump(Bump(Bump(p, a, "tied", 1), b, "tied", 1),
                               a, "points", 1), b, "points", 1)]
        ELSE IF result # "WIN" THEN [ok |-> FALSE, st |-> p]
        ELSE IF IsNone(winner) THEN [ok |-> FALSE, st |-> p]
        ELSE IF Val(winner) = a
        THEN [ok |-> TRUE,
              st |-> Bump(Bump(Bump(Bump(p, a, "won", 1), a, "points", 2),
                               b, "lost", 1), b, "points", 1)]
        ELSE IF Val(winner) = b
        THEN [ok |-> TRUE,
              st |-> Bump(Bump(Bump(Bump(p, b, "won", 1), b, "points", 2),
                               a, "lost", 1), a, "points", 1)]
        ELSE [ok |-> FALSE, st |-> p]

\* Variant: a tie is worth nothing.
apply_result_tie0(st, a, b, result, winner) ==
    LET p == Bump(Bump(st, a, "played", 1), b, "played", 1)
    IN  IF result = "NR"
        THEN [ok |-> TRUE,
              st |-> Bump(Bump(Bump(Bump(p, a, "nr", 1), b, "nr", 1),
                               a, "points", 1), b, "points", 1)]
        ELSE IF result = "TIE"
        THEN [ok |-> TRUE, st |-> Bump(Bump(p, a, "tied", 1), b, "tied", 1)]
        ELSE IF result # "WIN" THEN [ok |-> FALSE, st |-> p]
        ELSE IF IsNone(winner) THEN [ok |-> FALSE, st |-> p]
        ELSE IF Val(winner) = a
        THEN [ok |-> TRUE,
              st |-> Bump(Bump(Bump(p, a, "won", 1), a, "points", 2), b, "lost", 1)]
        ELSE IF Val(winner) = b
        THEN [ok |-> TRUE,
              st |-> Bump(Bump(Bump(p, b, "won", 1), b, "points", 2), a, "lost", 1)]
        ELSE [ok |-> FALSE, st |-> p]

\* apply_result(row_a, row_b, result, winner) on the rows of teams a and b:
\* [ok, st] ; st is what the rows hold when the call returns or raises
apply_result(st, a, b, result, winner) ==
    LET p == Bump(Bump(st, a, "played", 1), b, "played", 1)
    IN  IF result = "NR"
        THEN [ok |-> TRUE,
              st |-> Bump(Bump(Bump(Bump(p, a, "nr", 1), b, "nr", 1),
                               a, "points", 1), b, "points", 1)]
        ELSE IF result = "TIE"
        THEN [ok |-> TRUE,
              st |-> Bump(Bump(Bump(Bump(p, a, "tied", 1), b, "tied", 1),
                               a, "points", 1), b, "points", 1)]
        ELSE IF result # "WIN" THEN [ok |-> FALSE, st |-> p]
        ELSE IF IsNone(winner) THEN [ok |-> FALSE, st |-> p]
        ELSE IF Val(winner) = a
        THEN [ok |-> TRUE,
              st |-> Bump(Bump(Bump(p, a, "won", 1), a, "points", 2), b, "lost", 1)]
        ELSE IF Val(winner) = b
        THEN [ok |-> TRUE,
              st |-> Bump(Bump(Bump(p, b, "won", 1), b, "points", 2), a, "lost", 1)]
        ELSE [ok |-> FALSE, st |-> p]

----------------------------------------------------------------------------
(* ipl_api/simulator.py *)

Match(team1, team2, r1, o1, r2, o2, ao1, ao2, result, winner) ==
    [team1 |-> team1, team2 |-> team2,
     team1_runs |-> r1, team1_overs |-> o1,
     team2_runs |-> r2, team2_overs |-> o2,
     team1_all_out |-> ao1, team2_all_out |-> ao2,
     result |-> result, winner |-> winner]

has_innings(c) ==
    /\ ~IsNone(c.team1_runs) /\ ~IsNone(c.team1_overs)
    /\ ~IsNone(c.team2_runs) /\ ~IsNone(c.team2_overs)

\* what the call has done when it raises and when it reaches a return
\* statement, every one of which returns compute_sorted_table of the state
Raise(st) == [ok |-> FALSE, st |-> st]
Return(st) == [ok |-> TRUE, st |-> st]

\* [ok, st, table] ; the table that a call reaching a return statement returns
ReturnTable(r, rows) ==
    [ok |-> r.ok, st |-> r.st,
     table |-> IF r.ok THEN compute_sorted_table(r.st, rows) ELSE <<>>]

\* Lines 97-113: the aggregate update made when full innings are supplied.
\* [ok, st] ; every ValueError here is raised before the first write.
InningsUpdate(st, c) ==
    LET b1 == overs_to_balls(Val(c.team1_overs))
        b2 == overs_to_balls(Val(c.team2_overs))
    IN  IF IsNone(b1) \/ IsNone(b2) THEN [ok |-> FALSE, st |-> st]
        ELSE LET b1_norm == normalize_innings_balls(Val(b1), c.team1_all_out)
                 b2_norm == normalize_innings_balls(Val(b2), c.team2_all_out)
             IN  IF IsNone(b1_norm) \/ IsNone(b2_norm) THEN [ok |-> FALSE, st |-> st]
                 ELSE apply_match_batting_first(st, c.team1, c.team2,
                          Val(c.team1_runs), Val(c.team2_runs),
                          Val(b1_norm), Val(b2_norm))

\* Variant: an explicit winner is taken before the scores are looked at.
ResultUpdate_explicit_first(st, c) ==
    IF c.result = "TIE"
    THEN IF has_innings(c) /\ Val(c.team1_runs) # Val(c.team2_runs)
         THEN Raise(st)
         ELSE Return(apply_result(st, c.team1, c.team2, "TIE", None).st)
    ELSE IF c.result # "WIN" THEN Raise(st)
    ELSE IF has_innings(c) /\ Val(c.team1_runs) = Val(c.team2_runs) THEN Raise(st)
    ELSE LET winner == IF has_innings(c) /\ IsNone(c.winner)
                       THEN IF Val(c.team1_runs) > Val(c.team2_runs)
                            THEN Some(c.team1) ELSE Some(c.team2)
                       ELSE c.winner
         IN  IF IsNone(winner) THEN Raise(st)
             ELSE LET r == apply_result(st, c.team1, c.team2, "WIN", winner)
                  IN  IF r.ok THEN Return(r.st) ELSE Raise(r.st)

\* Variant: a tie is applied whatever the scores.
ResultUpdate_tie_unchecked(st, c) ==
    IF c.result = "TIE"
    THEN Return(apply_result(st, c.team1, c.team2, "TIE", None).st)
    ELSE IF c.result # "WIN" THEN Raise(st)
    ELSE IF has_innings(c) /\ Val(c.team1_runs) = Val(c.team2_runs) THEN Raise(st)
    ELSE LET winner == IF has_innings(c)
                       THEN IF Val(c.team1_runs) > Val(c.team2_runs)
                            THEN Some(c.team1) ELSE Some(c.team2)
                       ELSE c.winner
         IN  IF IsNone(winner) THEN Raise(st)
             ELSE LET r == apply_result(st, c.team1, c.team2, "WIN", winner)
                  IN  IF r.ok THEN Return(r.st) ELSE Raise(r.st)

\* Lines 115-137: what follows the aggregate update, on the state st it left.
ResultUpdate(st, c) ==
    IF c.result = "TIE"
    THEN IF has_innings(c) /\ Val(c.team1_runs) # Val(c.team2_runs)
         THEN Raise(st)
         ELSE Return(apply_result(st, c.team1, c.team2, "TIE", None).st)
    ELSE IF c.result # "WIN" THEN Raise(st)
    ELSE IF has_innings(c) /\ Val(c.team1_runs) = Val(c.team2_runs) THEN Raise(st)
    ELSE LET winner == IF has_innings(c)
                       THEN IF Val(c.team1_runs) > Val(c.team2_runs)
                            THEN Some(c.team1) ELSE Some(c.team2)
                       ELSE c.winner
         IN  IF IsNone(winner) THEN Raise(st)
             ELSE LET r == apply_result(st, c.team1, c.team2, "WIN", winner)
                  IN  IF r.ok THEN Return(r.st) ELSE Raise(r.st)

\* Variant: the innings are credited before the result tag is looked at.
simulate_match_innings_first(st, rows, c) ==
    ReturnTable(IF c.team1 \notin DOMAIN st \/ c.team2 \notin DOMAIN st THEN Raise(st)
                ELSE IF c.team1 = c.team2 THEN Raise(st)
                ELSE LET u == IF has_innings(c) THEN InningsUpdate(st, c)
                              ELSE [ok |-> TRUE, st |-> st]
                     IN  IF ~u.ok THEN Raise(st)
                         ELSE IF c.result = "NR"
                         THEN Return(apply_result(u.st, c.team1, c.team2, "NR", None).st)
                         ELSE ResultUpdate(u.st, c),
                rows)

\* simulate_match(state, ...): [ok, st, table] ; st is the state dict as the
\* call leaves it, whether it returns the table or raises.
simulate_match(st, rows, c) ==
    ReturnTable(IF c.team1 \notin DOMAIN st \/ c.team2 \notin DOMAIN st THEN Raise(st)
                ELSE IF c.team1 = c.team2 THEN Raise(st)
                ELSE IF c.result = "NR"
                THEN Return(apply_result(st, c.team1, c.team2, "NR", None).st)
                ELSE IF has_innings(c)
                THEN LET u == InningsUpdate(st, c)
                     IN  IF u.ok THEN ResultUpdate(u.st, c) ELSE Raise(st)
                ELSE ResultUpdate(st, c),
                rows)

----------------------------------------------------------------------------
(* ipl_api/planner.py *)

\* probabilities and random numbers of [0, 1) are counted in hundredths
Fixture(team1, team2, mode, nr, tie) ==
    [team1 |-> team1, team2 |-> team2, batting_first_mode |-> mode,
     nr_probability |-> nr, tie_probability |-> tie]

Min(a, b) == IF a < b THEN a ELSE b
Max(a, b) == IF a > b THEN a ELSE b
_clamp(x, lo, hi) == Max(lo, Min(hi, x))

\* f"{balls//6}.{balls%6}"
BallsStr(balls) == Overs(balls \div 6, Some(balls % 6))
FullOvers == Overs(20, Some(0))

\* _resolve_batting_order; n is the number of draws it took from rng
_resolve_batting_order(fx, d) ==
    IF fx.batting_first_mode = "team1"
    THEN [first |-> fx.team1, second |-> fx.team2, n |-> 0]
    ELSE IF fx.batting_first_mode = "team2"
    THEN [first |-> fx.team2, second |-> fx.team1, n |-> 0]
    ELSE IF d.toss < 50
    THEN [first |-> fx.team1, second |-> fx.team2, n |-> 1]
    ELSE [first |-> fx.team2, second |-> fx.team1, n |-> 1]

\* Variant: the two probabilities are read in the wrong order.
_sample_result_swapped(fx, d) ==
    IF d.res < fx.tie_probability THEN "NR"
    ELSE IF d.res < fx.nr_probability + fx.tie_probability THEN "TIE"
    ELSE "WIN"

\* _sample_result, on the draw u = d.res
_sample_result(fx, d) ==
    IF d.res < fx.nr_probability THEN "NR"
    ELSE IF d.res < fx.nr_probability + fx.tie_probability THEN "TIE"
    ELSE "WIN"

\* g is int(rng.gauss(170, 25))
_rand_first_innings_runs(g) == _clamp(g, 120, 240)

\* Variant: a defended total may be equalled.
_rand_defend_margin_from_zero(g) == _clamp(g, 0, 80)

\* g is int(abs(rng.gauss(15, 18)))
_rand_defend_margin(g) == _clamp(g, 1, 80)

\* noise is int(rng.gauss(0, 14)); int(90 + (target - 150) * 0.8) for the
\* targets 121..241 a first innings can set
_rand_chase_balls_used(target_runs, noise) ==
    LET base == 90 + ((target_runs - 150) * 8) \div 10
    IN  _clamp(base + noise, 1, MAX_BALLS_T20)

\* Variant: the runs needed off the last ball are not capped at the runs the
\* winning ball brings.
_build_innings_for_win_uncapped(bat_first, bat_second, winner, d) ==
    LET bf_runs == _rand_first_innings_runs(d.g_runs)
        bf_all_out == d.u_ao1 < 10
        bf_overs == IF bf_all_out THEN BallsStr(_clamp(d.g_b1, 60, 119)) ELSE FullOvers
        n0 == 2 + (IF bf_all_out THEN 1 ELSE 0)
        target == bf_runs + 1
    IN  IF winner = bat_first
        THEN LET margin == _rand_defend_margin(d.g_margin)
                 bs_all_out == d.u_ao2 < 20
             IN  [bf_runs |-> bf_runs, bf_overs |-> bf_overs, bf_all_out |-> bf_all_out,
                  bs_runs |-> _clamp(bf_runs - margin, 0, bf_runs),
                  bs_overs |-> IF bs_all_out
                               THEN BallsStr(_clamp(d.g_b2, 30, MAX_BALLS_T20))
                               ELSE FullOvers,
                  bs_all_out |-> bs_all_out,
                  overshoot |-> 0,
                  n |-> n0 + 2 + (IF bs_all_out THEN 1 ELSE 0)]
        ELSE LET balls_used == _rand_chase_balls_used(target, d.g_noise)
                 win_ball == d.win_ball
                 runs_before == target - d.needed
                 bs_runs == runs_before + win_ball
             IN  [bf_runs |-> bf_runs, bf_overs |-> bf_overs, bf_all_out |-> bf_all_out,
                  bs_runs |-> bs_runs,
                  bs_overs |-> BallsStr(balls_used),
                  bs_all_out |-> FALSE,
                  overshoot |-> Max(0, bs_runs - target),
                  n |-> n0 + 3]

\* _build_innings_for_win; n is the number of draws it took from rng
_build_innings_for_win(bat_first, bat_second, winner, d) ==
    LET bf_runs == _rand_first_innings_runs(d.g_runs)
        bf_all_out == d.u_ao1 < 10
        bf_overs == IF bf_all_out THEN BallsStr(_clamp(d.g_b1, 60, 119)) ELSE FullOvers
        n0 == 2 + (IF bf_all_out THEN 1 ELSE 0)
        target == bf_runs + 1
    IN  IF winner = bat_first
        THEN LET margin == _rand_defend_margin(d.g_margin)
                 bs_all_out == d.u_ao2 < 20
             IN  [bf_runs |-> bf_runs, bf_overs |-> bf_overs, bf_all_out |-> bf_all_out,
                  bs_runs |-> _clamp(bf_runs - margin, 0, bf_runs),
                  bs_overs |-> IF bs_all_out
                               THEN BallsStr(_clamp(d.g_b2, 30, MAX_BALLS_T20))
                               ELSE FullOvers,
                  bs_all_out |-> bs_all_out,
                  overshoot |-> 0,
                  n |-> n0 + 2 + (IF bs_all_out THEN 1 ELSE 0)]
        ELSE LET balls_used == _rand_chase_balls_used(target, d.g_noise)
                 win_ball == d.win_ball
                 needed_last_ball == IF d.needed > win_ball THEN win_ball ELSE d.needed
                 runs_before == target - needed_last_ball
                 bs_runs == runs_before + win_ball
             IN  [bf_runs |-> bf_runs, bf_overs |-> bf_overs, bf_all_out |-> bf_all_out,
                  bs_runs |-> bs_runs,
                  bs_overs |-> BallsStr(balls_used),
                  bs_all_out |-> FALSE,
                  overshoot |-> Max(0, bs_runs - target),
                  n |-> n0 + 3]

\* _build_innings_for_tie
_build_innings_for_tie(d) ==
    LET bf_runs == _rand_first_innings_runs(d.g_runs)
        bf_all_out == d.u_ao1 < 5
        bs_all_out == d.u_ao2 < 8
    IN  [bf_runs |-> bf_runs,
         bf_overs |-> IF bf_all_out THEN BallsStr(_clamp(d.g_b1, 60, 119)) ELSE FullOvers,
         bf_all_out |-> bf_all_out,
         bs_runs |-> bf_runs,
         bs_overs |-> IF bs_all_out
                      THEN BallsStr(_clamp(d.g_b2, 30, MAX_BALLS_T20))
                      ELSE FullOvers,
         bs_all_out |-> bs_all_out,
         overshoot |-> 0,
         n |-> 3 + (IF bf_all_out THEN 1 ELSE 0) + (IF bs_all_out THEN 1 ELSE 0)]

\* the fixed scores used when use_nrr is off (lines 438-439 and 463-465)
FixedScores(bs_runs) ==
    [bf_runs |-> 160, bf_overs |-> FullOvers, bf_all_out |-> FALSE,
     bs_runs |-> bs_runs, bs_overs |-> FullOvers, bs_all_out |-> FALSE,
     overshoot |-> 0, n |-> 0]

\* Lines 403-411 and 527-534: the checks made on one fixture
FixtureValid(base_state, fx) ==
    /\ fx.team1 # fx.team2
    /\ fx.team1 \in DOMAIN base_state /\ fx.team2 \in DOMAIN base_state
    /\ ~(fx.nr_probability < 0 \/ fx.tie_probability < 0)
    /\ ~(fx.nr_probability + fx.tie_probability > 100)

\* Variant: the fixtures are left to be checked by _run_one, one at a time.
PlannerInputValid_no_upfront_pass(base_state, fixtures, focus_team, iterations, confidence) ==
    /\ focus_team \in DOMAIN base_state
    /\ fixtures # <<>>
    /\ iterations > 0
    /\ 50 <= confidence /\ confidence <= 95

\* Lines 514-534: the validation monte_carlo_planner makes before rng exists
PlannerInputValid(base_state, fixtures, focus_team, iterations, confidence) ==
    /\ focus_team \in DOMAIN base_state
    /\ fixtures # <<>>
    /\ iterations > 0
    /\ 50 <= confidence /\ confidence <= 95
    /\ \A i \in DOMAIN fixtures : FixtureValid(base_state, fixtures[i])

\* Lines 413-479 of _run_one: one fixture drawn and applied to the state st.
\* [ok, st, n, match, overshoot] ; n is the number of draws taken from rng
PlayFixture(st, rows, fx, d, use_nrr) ==
    LET bo == _resolve_batting_order(fx, d)
        result == _sample_result(fx, d)
        winner == IF d.pick = 1 THEN bo.first ELSE bo.second
        syn == IF result = "TIE"
               THEN IF use_nrr THEN _build_innings_for_tie(d) ELSE FixedScores(160)
               ELSE IF use_nrr
                    THEN _build_innings_for_win(bo.first, bo.second, winner, d)
                    ELSE FixedScores(IF winner = bo.first THEN 150 ELSE 161)
        c == IF result = "NR"
             THEN Match(bo.first, bo.second, None, None, None, None, FALSE, FALSE, "NR", None)
             ELSE Match(bo.first, bo.second,
                        Some(syn.bf_runs), Some(syn.bf_overs),
                        Some(syn.bs_runs), Some(syn.bs_overs),
                        syn.bf_all_out, syn.bs_all_out,
                        result, IF result = "WIN" THEN Some(winner) ELSE None)
        r == simulate_match(st, rows, c)
    IN  [ok |-> r.ok, st |-> r.st, match |-> c,
         overshoot |-> IF result = "NR" THEN 0 ELSE syn.overshoot,
         n |-> bo.n + 1 + (IF result = "WIN" THEN 1 ELSE 0)
                    + (IF result # "NR" THEN syn.n ELSE 0)]

\* Variant: _run_one works on the caller's dict itself.
deepcopy_alias(h, src) == [heap |-> h, ref |-> src]

\* copy.deepcopy(base_state): a new dict of new rows, equal to the old ones
deepcopy(h, src) == [heap |-> [h EXCEPT !["copy"] = h[src]], ref |-> "copy"]

\* Variant: one team more than asked for is taken.
TopOf_one_more(final_table, k) ==
    {final_table[i].team : i \in 1..Min(k + 1, Len(final_table))}

\* order[:k] of the final table, as a set of teams
TopOf(final_table, k) == {final_table[i].team : i \in 1..Min(k, Len(final_table))}

\* _make_team_meta: the MatchOutcomeMeta of one team for one fixture.  An
\* overs_to_balls that fails leaves None where the code would raise.
_make_team_meta(fixture_index, fx, team, bat_first, bat_second, result, winner, bf_runs, bs_runs, bs_overs_str, overshoot_runs) ==
    LET played == team \in {fx.team1, fx.team2}
        m == [fixture_index |-> fixture_index, fixture |-> fx, team |-> team,
              played |-> played, batted_first |-> None, result |-> result,
              won |-> None, win_margin_runs |-> None, chase_balls_used |-> None,
              overshoot_runs |-> None, loss_margin_runs |-> None,
              loss_chase_runs_scored |-> None, loss_defend_opp_balls_used |-> None]
        batted_first == team = bat_first
        mb == [m EXCEPT !.batted_first = Some(batted_first)]
    IN  IF ~played THEN m
        ELSE IF result # "WIN" THEN mb
        ELSE IF IsNone(winner) \/ IsNone(bf_runs) \/ IsNone(bs_runs) \/ IsNone(bs_overs_str)
        THEN mb
        ELSE IF Val(winner) = team
        THEN IF batted_first
             THEN [mb EXCEPT !.won = Some(TRUE),
                             !.win_margin_runs = Some(Val(bf_runs) - Val(bs_runs))]
             ELSE [mb EXCEPT !.won = Some(TRUE),
                             !.chase_balls_used = overs_to_balls(Val(bs_overs_str)),
                             !.overshoot_runs = Some(overshoot_runs)]
        ELSE IF batted_first
             THEN [mb EXCEPT !.won = Some(FALSE),
                             !.loss_margin_runs = Some(Val(bs_runs) - Val(bf_runs)),
                             !.loss_defend_opp_balls_used = overs_to_balls(Val(bs_overs_str))]
             ELSE [mb EXCEPT !.won = Some(FALSE),
                             !.loss_margin_runs = Some(Val(bf_runs) - Val(bs_runs)),
                             !.loss_chase_runs_scored = Some(Val(bs_runs))]

\* Variant: a meta is kept only for the two teams of the fixture.
FixtureMetas_played_only(i, fx, r, teams) ==
    SelectSeq([k \in 1..Len(teams) |->
                  _make_team_meta(i, fx, teams[k], r.match.team1, r.match.team2,
                                  r.match.result, r.match.winner,
                                  r.match.team1_runs, r.match.team2_runs,
                                  r.match.team2_overs, r.overshoot)],
              LAMBDA m : m.played)

\* Lines 481-496: the metas appended for fixture number i (from 0), one for
\* every team of the base state in dict order; r is what PlayFixture gave
FixtureMetas(i, fx, r, teams) ==
    [k \in 1..Len(teams) |->
        _make_team_meta(i, fx, teams[k], r.match.team1, r.match.team2,
                        r.match.result, r.match.winner,
                        r.match.team1_runs, r.match.team2_runs,
                        r.match.team2_overs, r.overshoot)]

\* Variant: the generator of the previous call is used again.
random_Random_shared(seed, used) == [stream |-> seed, pos |-> used]

\* random.Random(seed): the stream the seed stands for, read from its start.
\* The stream is a finite sequence of per-fixture draws, read cyclically.
random_Random(seed, used) == [stream |-> seed, pos |-> 0]

StreamAt(rng) == rng.stream[(rng.pos % Len(rng.stream)) + 1]

\* The loop of _run_one from fixture i on: [ok, heap, all_metas, rng]
RECURSIVE RunFixtures(_, _, _, _, _, _, _, _)

\* Lines 468-496: what the loop does with r, the fixture just played: the
\* ValueError of simulate_match ends the run, otherwise the metas of the
\* fixture are appended and the loop goes on
AfterFixture(h, ref, rows, fixtures, i, rng, use_nrr, all_metas, r) ==
    IF ~r.ok
    THEN [ok |-> FALSE, heap |-> [h EXCEPT ![ref] = r.st], all_metas |-> all_metas,
          rng |-> [rng EXCEPT !.pos = @ + 1]]
    ELSE RunFixtures([h EXCEPT ![ref] = r.st], ref, rows, fixtures, i + 1,
                     [rng EXCEPT !.pos = @ + 1], use_nrr,
                     all_metas \o FixtureMetas(i - 1, fixtures[i], r, rows))

RunFixtures(h, ref, rows, fixtures, i, rng, use_nrr, all_metas) ==
    IF i > Len(fixtures)
    THEN [ok |-> TRUE, heap |-> h, all_metas |-> all_metas, rng |-> rng]
    ELSE IF ~FixtureValid(h["base"], fixtures[i])
    THEN [ok |-> FALSE, heap |-> h, all_metas |-> all_metas, rng |-> rng]
    ELSE AfterFixture(h, ref, rows, fixtures, i, rng, use_nrr, all_metas,
                      PlayFixture(h[ref], rows, fixtures[i], StreamAt(rng), use_nrr))

\* Lines 498-499: the table of the simulated state, returned with the metas
RunOneReturn(r, ref, rows) ==
    [ok |-> r.ok, heap |-> r.heap, all_metas |-> r.all_metas, rng |-> r.rng,
     final_table |-> IF r.ok THEN compute_sorted_table(r.heap[ref], rows)
                     ELSE <<>>]

\* _run_one: [ok, heap, final_table, all_metas, rng]
_run_one(h, rows, fixtures, rng, use_nrr) ==
    RunOneReturn(RunFixtures(deepcopy(h, "base").heap, deepcopy(h, "base").ref,
                             rows, fixtures, 1, rng, use_nrr, <<>>),
                 deepcopy(h, "base").ref, rows)

\* Variant: the metas of every team are kept for a team in the top four.
MetasOf_every_team(all_metas, t) == all_metas

\* [m for m in all_metas if m.team == t]
MetasOf(all_metas, t) == SelectSeq(all_metas, LAMBDA m : m.team = t)

\* Lines 544-557 from iteration it on; acc holds top4_count, top2_count and
\* metas_when_team_top4
RECURSIVE Iterations(_, _, _, _, _, _)

\* Lines 545-557: the tallies of one iteration, r being what _run_one gave
Tally(rows, q, it, acc, r) ==
    LET top4 == TopOf(r.final_table, 4)
        top2 == TopOf(r.final_table, 2)
        teams == DOMAIN acc.top4_count
    IN  IF ~r.ok
        THEN [ok |-> FALSE, heap |-> r.heap, rng |-> r.rng, acc |-> acc]
        ELSE Iterations(r.heap, rows, q, r.rng, it + 1,
               [top4_count |->
                   [t \in teams |-> acc.top4_count[t] + IF t \in top4 THEN 1 ELSE 0],
                top2_count |->
                   [t \in teams |-> acc.top2_count[t] + IF t \in top2 THEN 1 ELSE 0],
                metas_when_team_top4 |->
                   [t \in teams |->
                       IF t \in top4
                       THEN acc.metas_when_team_top4[t] \o MetasOf(r.all_metas, t)
                       ELSE acc.metas_when_team_top4[t]]])

Iterations(h, rows, q, rng, it, acc) ==
    IF it >= q.iterations
    THEN [ok |-> TRUE, heap |-> h, rng |-> rng, acc |-> acc]
    ELSE Tally(rows, q, it, acc, _run_one(h, rows, q.fixtures, rng, q.use_nrr))

\* Lines 559-593: what the call returns, r being what the iterations gave.
\* A probability is the pair <<count, iterations>>; the requirement
\* summaries are functions of the metas kept for the team, of the fixtures
\* and of the confidence.
PlannerReturn(q, teams, r) ==
    [ok |-> r.ok, heap |-> r.heap, rng |-> r.rng,
     result |->
       IF ~r.ok THEN None
       ELSE Some([iterations |-> q.iterations, use_nrr |-> q.use_nrr,
                  focus_team |-> q.focus_team,
                  confidence |-> q.confidence,
                  top4_probability |->
                     [t \in teams |-> <<r.acc.top4_count[t], q.iterations>>],
                  top2_probability |->
                     [t \in teams |-> <<r.acc.top2_count[t], q.iterations>>],
                  requirements |->
                     [t \in teams |->
                         [metas |-> r.acc.metas_when_team_top4[t],
                          qualified_samples |-> r.acc.top4_count[t]]]])]

\* monte_carlo_planner as a whole: [ok, heap, rng, result]
monte_carlo_planner(h, rows, q, seed, used) ==
    IF ~PlannerInputValid(h["base"], q.fixtures, q.focus_team, q.iterations, q.confidence)
    THEN [ok |-> FALSE, heap |-> h, rng |-> [stream |-> seed, pos |-> used],
          result |-> None]
    ELSE PlannerReturn(q, DOMAIN h["base"],
            Iterations(h, rows, q, random_Random(seed, used), 0,
                       [top4_count |-> [t \in DOMAIN h["base"] |-> 0],
                        top2_count |-> [t \in DOMAIN h["base"] |-> 0],
                        metas_when_team_top4 |-> [t \in DOMAIN h["base"] |-> <<>>]]))

----------------------------------------------------------------------------
(* ipl_api/thresholds.py *)

\* _clone_state: a new dict of new TeamRow and TeamAggregate objects
_clone_state(h, src) == [heap |-> [h EXCEPT !["copy"] = h[src]], ref |-> "copy"]

_balls_to_overs_str(balls) ==
    IF balls <= 0 THEN Overs(0, Some(0)) ELSE BallsStr(balls)

\* _pos_map(sorted_table)[t], for a team t of the table
PosOf(sorted_table, t) ==
    sorted_table[CHOOSE i \in 1..Len(sorted_table) : sorted_table[i].team = t].pos

InTable(sorted_table, t) == \E i \in 1..Len(sorted_table) : sorted_table[i].team = t

\* Variant: the larger position counts as the higher rank.
_is_above_reversed(sorted_table, focus, competitor) ==
    IF ~InTable(sorted_table, focus) \/ ~InTable(sorted_table, competitor)
    THEN [ok |-> FALSE, above |-> FALSE]
    ELSE [ok |-> TRUE,
          above |-> PosOf(sorted_table, focus) > PosOf(sorted_table, competitor)]

\* _is_above: [ok, above] ; ok is FALSE where the code raises ValueError
_is_above(sorted_table, focus, competitor) ==
    IF ~InTable(sorted_table, focus) \/ ~InTable(sorted_table, competitor)
    THEN [ok |-> FALSE, above |-> FALSE]
    ELSE [ok |-> TRUE,
          above |-> PosOf(sorted_table, focus) < PosOf(sorted_table, competitor)]

\* str.strip().upper() on the team names tried
Norm(name) ==
    CASE name = " a " -> "A"
      [] name = "b" -> "B"
      [] name = "c" -> "C"
      [] OTHER -> name

SolverOps == {"chase_loss_min_score", "defend_win_max_opp_score", "chase_win_max_balls"}

\* The early returns of the three solvers (lines 94-102, 174-182, 254-259)
SolverInputValid(base_state, q) ==
    /\ q.score > 0
    /\ q.op # "chase_win_max_balls" => ~(q.balls < 1 \/ q.balls > MAX_BALLS_T20)
    /\ \A t \in {q.focus, q.opponent, q.competitor} : t \in DOMAIN base_state

\* Variant: the chase-win search stops one ball short of the full innings.
SearchHi_short(q) ==
    IF q.op = "chase_win_max_balls" THEN MAX_BALLS_T20 - 1 ELSE q.score - 1

\* lo, hi = ... of each solver
SearchLo(q) == IF q.op = "chase_win_max_balls" THEN 1 ELSE 0
SearchHi(q) == IF q.op = "chase_win_max_balls" THEN MAX_BALLS_T20 ELSE q.score - 1

\* Variant: every solver probes the top of its domain first.
FirstProbe_hi(q) ==
    IF q.op = "chase_win_max_balls" THEN MAX_BALLS_T20 ELSE q.score - 1

\* the value of the feasibility probe made before the search
FirstProbe(q) ==
    CASE q.op = "chase_loss_min_score" -> q.score - 1
      [] q.op = "defend_win_max_opp_score" -> 0
      [] q.op = "chase_win_max_balls" -> 1

\* the simulate_match call of check(x); result and winner keep their defaults
CheckMatch(q, x) ==
    CASE q.op = "chase_loss_min_score" ->
            Match(q.opponent, q.focus, Some(q.score), Some(FullOvers),
                  Some(x), Some(_balls_to_overs_str(q.balls)), FALSE, FALSE, "WIN", None)
      [] q.op = "defend_win_max_opp_score" ->
            Match(q.focus, q.opponent, Some(q.score), Some(FullOvers),
                  Some(x), Some(_balls_to_overs_str(q.balls)), FALSE, FALSE, "WIN", None)
      [] q.op = "chase_win_max_balls" ->
            Match(q.opponent, q.focus, Some(q.score), Some(FullOvers),
                  Some(q.score + 1), Some(_balls_to_overs_str(x)), FALSE, FALSE, "WIN", None)

\* check(x): [heap, ok, above] ; ok is FALSE where an exception escapes
check(h, rows, q, x) ==
    LET cl == _clone_state(h, "base")
        r == simulate_match(cl.heap[cl.ref], rows, CheckMatch(q, x))
        a == _is_above(r.table, q.focus, q.competitor)
    IN  [heap |-> [cl.heap EXCEPT ![cl.ref] = r.st],
         ok |-> r.ok /\ a.ok,
         above |-> r.ok /\ a.ok /\ a.above]

\* Variant: every solver searches upwards after a success.
Narrow_upward(q, s, mid, above) ==
    IF above
    THEN [s EXCEPT !.best = Some(mid), !.lo = mid + 1, !.probes = @ + 1]
    ELSE [s EXCEPT !.hi = mid - 1, !.probes = @ + 1]

\* one turn of the while loop, on the answer of check(mid)
Narrow(q, s, mid, above) ==
    IF above
    THEN IF q.op = "chase_loss_min_score"
         THEN [s EXCEPT !.best = Some(mid), !.hi = mid - 1, !.probes = @ + 1]
         ELSE [s EXCEPT !.best = Some(mid), !.lo = mid + 1, !.probes = @ + 1]
    ELSE IF q.op = "chase_loss_min_score"
         THEN [s EXCEPT !.lo = mid + 1, !.probes = @ + 1]
         ELSE [s EXCEPT !.hi = mid - 1, !.probes = @ + 1]

----------------------------------------------------------------------------
(* ipl_api/state_from_standings.py *)

\* A value of the standings JSON as the code receives it: the key absent or
\* None ("none"), a blank string, "nan", a text that float() rejects, an
\* integer or integer string (val), a decimal such as "3.7" (val in tenths)
Raw(kind, val) == [kind |-> kind, val |-> val]
Absent == Raw("none", 0)
Num(n) == Raw("num", n)

\* int(float(sx)): the decimal cut towards zero
IntOfFloat(x) ==
    IF x.kind = "num" THEN x.val
    ELSE IF x.val >= 0 THEN x.val \div 10 ELSE -((-x.val) \div 10)

_safe_int(x, default) ==
    IF x.kind \in {"none", "blank", "nan", "text"} THEN default ELSE IntOfFloat(x)

_to_int_or_none(x) ==
    IF x.kind \in {"none", "blank", "nan", "text"} THEN None ELSE Some(IntOfFloat(x))

\* normalize_team_code on the display strings tried
normalize_team_code(team_raw) ==
    CASE team_raw = "3 Cee CC" -> "CC"
      [] team_raw = "alpha" -> "ALPHA"
      [] OTHER -> team_raw

\* lines 88-92: (t.get("code") or "").strip(), .upper(), or the display name
TeamCode(t) ==
    LET raw_code == Norm(t.code)
    IN  IF raw_code # "" THEN raw_code ELSE normalize_team_code(t.team)

\* x or 0
OrZero(x) == IF IsNone(x) THEN 0 ELSE Val(x)

\* Variant: missing aggregates become zero whatever the matches played.
TeamAggregateOf_lenient(matches, rf, bf, ra, ba) ==
    Some(<<OrZero(rf), OrZero(bf), OrZero(ra), OrZero(ba)>>)

\* lines 120-146: the aggregate of a team, or None where ValueError is raised
TeamAggregateOf(matches, rf, bf, ra, ba) ==
    IF matches = 0
    THEN Some(<<OrZero(rf), OrZero(bf), OrZero(ra), OrZero(ba)>>)
    ELSE IF IsNone(rf) \/ IsNone(bf) \/ IsNone(ra) \/ IsNone(ba) THEN None
    ELSE Some(<<Val(rf), Val(bf), Val(ra), Val(ba)>>)

\* The loop of build_state_from_standings from record i on: Some(state), or
\* None where the ValueError leaves the function
RECURSIVE BuildFrom(_, _, _)
BuildFrom(teams, i, state) ==
    IF i > Len(teams) THEN Some(state)
    ELSE LET t == teams[i]
             team_code == TeamCode(t)
             matches == _safe_int(t.matches, 0)
             agg == TeamAggregateOf(matches,
                                    _to_int_or_none(t.runs_for),
                                    _to_int_or_none(t.balls_for),
                                    _to_int_or_none(t.runs_against),
                                    _to_int_or_none(t.balls_against))
             row == TeamRow(matches, _safe_int(t.won, 0), _safe_int(t.lost, 0),
                            _safe_int(t.nr, 0), _safe_int(t.tied, 0),
                            _safe_int(t.points, 0),
                            Val(agg)[1], Val(agg)[2], Val(agg)[3], Val(agg)[4])
         IN  IF team_code = "" THEN BuildFrom(teams, i + 1, state)
             ELSE IF IsNone(agg) THEN None
             ELSE BuildFrom(teams, i + 1,
                            [c \in DOMAIN state \cup {team_code} |->
                                IF c = team_code THEN row ELSE state[c]])

\* standings.get("teams", []) or [] is the sequence teams
build_state_from_standings(teams) == BuildFrom(teams, 1, <<>>)

----------------------------------------------------------------------------
(* The states and inputs explored *)

ZeroRow == TeamRow(0, 0, 0, 0, 0, 0, 0, 0, 0, 0)
\* two matches played, one won and one lost
MidRow == TeamRow(2, 1, 1, 0, 0, 2, 3, 12, 2, 12)

RowSamples == {ZeroRow, MidRow}
BaseStates == [Teams -> RowSamples]
SeqBaseStates == {[t \in Teams |-> r] : r \in RowSamples}

ResultTags == {"WIN", "TIE", "NR", "DRAW"}     \* "DRAW" is no ResultType
Winners == {None} \cup {Some(t) : t \in Teams}

NoInnings == [r1 |-> None, o1 |-> None, r2 |-> None, o2 |-> None,
              ao1 |-> FALSE, ao2 |-> FALSE]

FullInnings(runs, overs, flags) ==
    {[r1 |-> Some(a), o1 |-> Some(x), r2 |-> Some(b), o2 |-> Some(y),
      ao1 |-> f, ao2 |-> g] :
        a \in runs, b \in runs, x \in overs, y \in overs, f \in flags, g \in flags}

\* runs of both sides without the overs: not a full innings
PartInnings == [NoInnings EXCEPT !.r1 = Some(2), !.r2 = Some(1)]

MatchOf(t1, t2, i, res, w) ==
    Match(t1, t2, i.r1, i.o1, i.r2, i.o2, i.ao1, i.ao2, res, w)

\* "0.0", "1", "20.3" (more than 20 overs) and "0.6" (no overs notation)
OversWide == {Overs(0, Some(0)), Overs(1, None), Overs(20, Some(3)), Overs(0, Some(6))}
InningsWide == {NoInnings, PartInnings} \cup FullInnings({1, 2}, OversWide, BOOLEAN)

\* in a sequence of calls: no innings; 2 v 1, 1 v 1 and 1 v 2 runs in "1.1"
\* overs each, the side batting first all out in the last
InningsSeq ==
    {NoInnings} \cup
    {[r1 |-> Some(x[1]), o1 |-> Some(Overs(1, Some(1))),
      r2 |-> Some(x[2]), o2 |-> Some(Overs(1, Some(1))),
      ao1 |-> x[3], ao2 |-> FALSE] :
        x \in {<<2, 1, FALSE>>, <<1, 1, FALSE>>, <<1, 2, TRUE>>}}
BatFirstSeq == {"A", "B"}
WinnersSeq == {None, Some("A"), Some("C")}

\* what a call in a sequence of calls leaves in "call": the operation alone
OpOnly(op) == [op |-> op]
NoCall == OpOnly("none")
NoRun == [it |-> 0, fi |-> 0, draws |-> 0, sims |-> 0, state |-> "copy",
          top4_count |-> <<>>, top2_count |-> <<>>]
NoSearch == [lo |-> 0, hi |-> 0, best |-> None, probes |-> 0]

----------------------------------------------------------------------------
(* Library calls on the caller's state *)

\* simulate_match(state, ...) on the caller's dict
CallSimulateMatch(c, rec) ==
    LET r == simulate_match(heap["base"], order, c)
    IN  /\ heap' = [heap EXCEPT !["base"] = r.st]
        /\ pre' = heap["base"]
        /\ call' = rec
        /\ outcome' = IF r.ok THEN "ok" ELSE "error"
        /\ table' = r.table
        /\ nmatches' = nmatches + 1
        /\ UNCHANGED <<order, pc, run, search>>

\* apply_result(state[a], state[b], result=..., winner=...)
CallApplyResult(a, b, res, w, rec) ==
    LET r == apply_result(heap["base"], a, b, res, w)
    IN  /\ heap' = [heap EXCEPT !["base"] = r.st]
        /\ pre' = heap["base"]
        /\ call' = rec
        /\ outcome' = IF r.ok THEN "ok" ELSE "error"
        /\ table' = <<>>
        /\ nmatches' = nmatches + 1
        /\ UNCHANGED <<order, pc, run, search>>

InitCommon ==
    /\ order = <<"A", "B", "C">>
    /\ call = NoCall
    /\ outcome = "none"
    /\ table = <<>>
    /\ nmatches = 0
    /\ pc = "idle"
    /\ run = NoRun
    /\ search = NoSearch

\* Any sequence of library calls on one state.
Init ==
    /\ InitCommon
    /\ \E s \in SeqBaseStates : heap = [o \in Objs |-> s] /\ pre = s

SimulateStep ==
    /\ nmatches < MaxMatches
    /\ \E t1 \in BatFirstSeq, t2 \in Names, i \in InningsSeq,
          res \in ResultTags, w \in WinnersSeq :
          CallSimulateMatch(MatchOf(t1, t2, i, res, w), OpOnly("simulate_match"))

ApplyStep ==
    /\ nmatches < MaxMatches
    /\ \E a \in BatFirstSeq, b \in Teams, res \in ResultTags, w \in WinnersSeq :
          CallApplyResult(a, b, res, w, OpOnly("apply_result"))

Next == SimulateStep \/ ApplyStep

Spec == Init /\ [][Next]_vars

\* One simulate_match call, on every input, from each base state.
OneCall ==
    /\ outcome = "none"
    /\ \E t1 \in Names, t2 \in Names, i \in InningsWide, res \in ResultTags, w \in Winners :
          CallSimulateMatch(MatchOf(t1, t2, i, res, w),
                            [op |-> "simulate_match",
                             c |-> MatchOf(t1, t2, i, res, w)])

InitCall ==
    /\ InitCommon
    /\ \E s \in BaseStates : heap = [o \in Objs |-> s] /\ pre = s

SpecCall == InitCall /\ [][OneCall]_vars

----------------------------------------------------------------------------
(* Claims about simulate_match and apply_result *)

IsSim == call.op = "simulate_match"
ValidTeams(c) == c.team1 \in Teams /\ c.team2 \in Teams /\ c.team1 # c.team2
Others(c) == Teams \ {c.team1, c.team2}
AggFields == {"runs_for", "balls_for", "runs_against", "balls_against"}
RowFields == {"played", "won", "lost", "nr", "tied", "points"}
SameOn(r, q, fields) == \A f \in fields : r[f] = q[f]
\* the balls an overs notation stands for
BallsOf(o) == 6 * o.whole + (IF IsNone(o.frac) THEN 0 ELSE Val(o.frac))

\* C1: a simulate_match call that ends in an error leaves every row counter
\* and every aggregate counter of every team as it was before the call.
C1_ErrorLeavesStateUntouched ==
    (IsSim /\ outcome = "error") => heap["base"] = pre

\* C2: played = won + lost + nr + tied for every team, in every state reached
\* by apply_result and simulate_match calls, completed or rejected.
C2_PlayedIsSumOfOutcomes ==
    \A t \in Teams :
        LET r == heap["base"][t] IN r.played = r.won + r.lost + r.nr + r.tied

\* C3: points = 2*won + tied + nr for every team, after any sequence of
\* applied results.
C3_PointsArithmetic ==
    \A t \in Teams :
        LET r == heap["base"][t] IN r.points = 2 * r.won + r.tied + r.nr

\* a win has been applied on top of an earlier tie or no-result
C3_Witness ==
    /\ outcome = "ok"
    /\ \E t \in Teams : heap["base"][t].won > pre[t].won
    /\ \E t \in Teams : pre[t].tied > 0 \/ pre[t].nr > 0

\* C4: simulate_match with result NR adds 1 to played, nr and points of
\* team1 and team2 and changes no other counter of any team, whether or not
\* innings are supplied.
C4_NoResultPointsOnly ==
    (IsSim /\ call.c.result = "NR" /\ ValidTeams(call.c)) =>
        /\ outcome = "ok"
        /\ \A t \in Teams :
             LET r == heap["base"][t]
                 q == pre[t]
             IN  /\ SameOn(r, q, AggFields \cup {"won", "lost", "tied"})
                 /\ IF t \in {call.c.team1, call.c.team2}
                    THEN /\ r.played = q.played + 1
                         /\ r.nr = q.nr + 1
                         /\ r.points = q.points + 1
                    ELSE SameOn(r, q, RowFields)

\* a no-result was applied although both innings were supplied
C4_Witness ==
    /\ IsSim /\ call.c.result = "NR" /\ outcome = "ok"
    /\ has_innings(call.c)
    /\ heap["base"][call.c.team1].nr = pre[call.c.team1].nr + 1

Awarded(w, l) ==
    /\ heap["base"][w].won = pre[w].won + 1
    /\ heap["base"][w].points = pre[w].points + 2
    /\ heap["base"][w].lost = pre[w].lost
    /\ heap["base"][l].lost = pre[l].lost + 1
    /\ heap["base"][l].won = pre[l].won
    /\ heap["base"][l].points = pre[l].points

\* C5: a WIN with full innings goes to the side with more runs, whatever
\* winner was passed; a WIN without full innings goes to the winner passed.
C5_WinnerDerivedFromScores ==
    (IsSim /\ call.c.result = "WIN" /\ outcome = "ok") =>
        LET c == call.c
        IN  IF has_innings(c)
            THEN IF Val(c.team1_runs) > Val(c.team2_runs)
                 THEN Awarded(c.team1, c.team2)
                 ELSE Awarded(c.team2, c.team1)
            ELSE /\ ~IsNone(c.winner)
                 /\ Val(c.winner) \in {c.team1, c.team2}
                 /\ Awarded(Val(c.winner), CHOOSE l \in {c.team1, c.team2} : l # Val(c.winner))

\* the side passed as winner scored fewer runs, and lost
C5_Witness ==
    /\ IsSim /\ call.c.result = "WIN" /\ outcome = "ok" /\ has_innings(call.c)
    /\ call.c.winner = Some(call.c.team2)
    /\ Val(call.c.team1_runs) > Val(call.c.team2_runs)
    /\ heap["base"][call.c.team1].won = pre[call.c.team1].won + 1

Credit(c, side) ==
    LET o == IF side = 1 THEN Val(c.team1_overs) ELSE Val(c.team2_overs)
        ao == IF side = 1 THEN c.team1_all_out ELSE c.team2_all_out
    IN  IF ao THEN 120 ELSE BallsOf(o)

\* C6: a successful WIN or TIE with full innings adds (r1, n1, r2, n2) to
\* team1's (runs_for, balls_for, runs_against, balls_against) and
\* (r2, n2, r1, n1) to team2's, n being 120 for a side all out and its balls
\* otherwise, and leaves the aggregates of every other team alone.
C6_AggregatesCredited ==
    (IsSim /\ call.c.result \in {"WIN", "TIE"} /\ outcome = "ok" /\ has_innings(call.c)) =>
        LET c == call.c
            r1 == Val(c.team1_runs)
            r2 == Val(c.team2_runs)
            n1 == Credit(c, 1)
            n2 == Credit(c, 2)
            a == heap["base"][c.team1]
            b == heap["base"][c.team2]
            pa == pre[c.team1]
            pb == pre[c.team2]
        IN  /\ a.runs_for = pa.runs_for + r1
            /\ a.balls_for = pa.balls_for + n1
            /\ a.runs_against = pa.runs_against + r2
            /\ a.balls_against = pa.balls_against + n2
            /\ b.runs_for = pb.runs_for + r2
            /\ b.balls_for = pb.balls_for + n2
            /\ b.runs_against = pb.runs_against + r1
            /\ b.balls_against = pb.balls_against + n1
            /\ \A t \in Others(c) : SameOn(heap["base"][t], pre[t], AggFields)

\* a side all out in 6 balls was credited 120, the other its own balls
C6_Witness ==
    /\ IsSim /\ outcome = "ok" /\ has_innings(call.c)
    /\ call.c.result \in {"WIN", "TIE"}
    /\ call.c.team1_all_out /\ ~call.c.team2_all_out
    /\ BallsOf(Val(call.c.team1_overs)) = 6
    /\ heap["base"][call.c.team1].balls_for = pre[call.c.team1].balls_for + 120

PlayableInnings(c) ==
    /\ has_innings(c)
    /\ \A o \in {Val(c.team1_overs), Val(c.team2_overs)} :
          /\ o.whole >= 0
          /\ IsNone(o.frac) \/ Val(o.frac) \in 0..5
          /\ BallsOf(o) > 0

\* C7: simulate_match raises for a TIE with full innings of different runs,
\* for a WIN with full innings of equal runs and for a WIN with neither full
\* innings nor a winner; it returns a table for a TIE with equal runs and
\* for a WIN with different runs.
C7_DomainRules ==
    IsSim =>
        LET c == call.c
        IN  /\ (c.result = "TIE" /\ has_innings(c)
                  /\ Val(c.team1_runs) # Val(c.team2_runs)) => outcome = "error"
            /\ (c.result = "WIN" /\ has_innings(c)
                  /\ Val(c.team1_runs) = Val(c.team2_runs)) => outcome = "error"
            /\ (c.result = "WIN" /\ ~has_innings(c) /\ IsNone(c.winner))
                  => outcome = "error"
            /\ (ValidTeams(c) /\ PlayableInnings(c) /\ c.result = "TIE"
                  /\ Val(c.team1_runs) = Val(c.team2_runs))
                  => outcome = "ok" /\ Len(table) = Cardinality(Teams)
            /\ (ValidTeams(c) /\ PlayableInnings(c) /\ c.result = "WIN"
                  /\ Val(c.team1_runs) # Val(c.team2_runs))
                  => outcome = "ok" /\ Len(table) = Cardinality(Teams)

\* a tie declared on 2 runs against 1 was rejected
C7_Witness ==
    /\ IsSim /\ outcome = "error" /\ ValidTeams(call.c)
    /\ call.c.result = "TIE" /\ PlayableInnings(call.c)
    /\ Val(call.c.team1_runs) # Val(call.c.team2_runs)

----------------------------------------------------------------------------
(* compute_sorted_table on rows of every kind, supplied in every order *)

\* a row with the given points, all of them from wins
TableRow(points, rf, bf, ra, ba) ==
    TeamRow(points \div 2, points \div 2, 0, 0, 0, points, rf, bf, ra, ba)

TableRows ==
    {TableRow(p, rf, bf, ra, ba) :
        p \in {0, 2}, rf \in {1, 3}, bf \in {0, 6}, ra \in {1, 2}, ba \in {6, 12}}

Orders == {o \in [1..Cardinality(Teams) -> Teams] : \A t \in Teams : \E i \in DOMAIN o : o[i] = t}

InitTable ==
    /\ order \in Orders
    /\ \E s \in [Teams -> TableRows] : heap = [o \in Objs |-> s] /\ pre = s
    /\ call = NoCall
    /\ outcome = "none"
    /\ table = <<>>
    /\ nmatches = 0
    /\ pc = "idle"
    /\ run = NoRun
    /\ search = NoSearch

\* compute_sorted_table(list(state.values()))
CallComputeSortedTable ==
    /\ outcome = "none"
    /\ table' = compute_sorted_table(heap["base"], order)
    /\ call' = OpOnly("compute_sorted_table")
    /\ outcome' = "ok"
    /\ pre' = heap["base"]
    /\ UNCHANGED <<heap, order, nmatches, pc, run, search>>

SpecTable == InitTable /\ [][CallComputeSortedTable]_vars

\* x has a strictly higher net run rate than y:
\* 6*rf/bf - 6*ra/ba, a rate being 0 when no ball was bowled
RateNum(r, b) == IF b > 0 THEN 6 * r ELSE 0
RateDen(b) == IF b > 0 THEN b ELSE 1
NrrNum(x) ==
    RateNum(x.runs_for, x.balls_for) * RateDen(x.balls_against)
        - RateNum(x.runs_against, x.balls_against) * RateDen(x.balls_for)
NrrDen(x) == RateDen(x.balls_for) * RateDen(x.balls_against)
NrrHigher(x, y) == NrrNum(x) * NrrDen(y) > NrrNum(y) * NrrDen(x)

RanksAbove(x, y) ==
    \/ x.points > y.points
    \/ x.points = y.points /\ NrrHigher(x, y)

\* C8: compute_sorted_table returns one record per row, with positions
\* 1..N, and a team with more points, or the same points and a strictly
\* higher net run rate, stands before the other, in whatever order the rows
\* were supplied.
C8_TableRankedByPointsThenNrr ==
    call.op = "compute_sorted_table" =>
        /\ Len(table) = Len(order)
        /\ \A i \in DOMAIN table : table[i].pos = i
        /\ \A t \in Teams : \E i \in DOMAIN table : table[i].team = t
        /\ \A i \in DOMAIN table : \A j \in DOMAIN table :
              RanksAbove(heap["base"][table[i].team], heap["base"][table[j].team])
                  => table[i].pos < table[j].pos

\* the row supplied last, level on points with the others, was ranked first
\* on net run rate
C8_Witness ==
    /\ call.op = "compute_sorted_table"
    /\ table[1].team = order[Len(order)]
    /\ \A t \in Teams : heap["base"][t].points = 2
    /\ NrrHigher(heap["base"][table[1].team], heap["base"][table[2].team])
    /\ NrrHigher(heap["base"][table[2].team], heap["base"][table[3].team])

----------------------------------------------------------------------------
(* One call of the planner or of a threshold solver on a five-team table *)

MaxIterations == 2

PlanTeams == {"A", "B", "C", "D", "E"}
PlanOrder == <<"A", "B", "C", "D", "E">>

\* A and B level on points, D one win and E two wins ahead of them, C behind
PlanBase ==
    [t \in PlanTeams |->
        CASE t = "A" -> MidRow
          [] t = "B" -> TeamRow(2, 1, 1, 0, 0, 2, 2, 12, 3, 12)
          [] t = "C" -> ZeroRow
          [] t = "D" -> TeamRow(3, 2, 1, 0, 0, 4, 5, 18, 4, 18)
          [] t = "E" -> TeamRow(3, 3, 0, 0, 0, 6, 6, 18, 3, 18)]

\* Everything level: the table order is the dict order until a match is played
PlanLevel == [t \in PlanTeams |-> ZeroRow]

PlanBaseStates == {PlanBase, PlanLevel}

Modes == {"team1", "team2", "toss"}
ValidFixtures ==
    {Fixture(pr[1], pr[2], mode, pb[1], pb[2]) :
        pr \in {<<"A", "B">>, <<"C", "A">>}, mode \in Modes,
        pb \in {<<0, 0>>, <<50, 50>>, <<100, 0>>}}
InvalidFixtures ==
    {Fixture("B", "B", "toss", 0, 0), Fixture("A", "X", "team1", 0, 0),
     Fixture("A", "B", "toss", -10, 0), Fixture("C", "A", "toss", 0, -10),
     Fixture("A", "B", "team2", 60, 50)}
FirstFixtures ==
    {Fixture("A", "B", "toss", 50, 50), Fixture("C", "A", "team2", 0, 0),
     Fixture("C", "A", "toss", 100, 0)}
FixtureLists ==
    {<<>>}
    \cup {<<f>> : f \in ValidFixtures \cup InvalidFixtures}
    \cup {<<f, g>> : f \in FirstFixtures, g \in ValidFixtures \cup InvalidFixtures}
    \cup {<<f, g>> : f \in InvalidFixtures, g \in FirstFixtures}

\* What rng yields for one fixture: the uniform draws in hundredths, the
\* gaussian draws after int(), the choices made by rng.choice
QuietDraws ==
    [g_runs |-> 171, u_ao1 |-> 60, g_b1 |-> 112, g_margin |-> 15,
     u_ao2 |-> 60, g_b2 |-> 108, g_noise |-> -3, win_ball |-> 1, needed |-> 1]
EventfulDraws ==
    [g_runs |-> 110, u_ao1 |-> 1, g_b1 |-> 55, g_margin |-> 0,
     u_ao2 |-> 1, g_b2 |-> 130, g_noise |-> 40, win_ball |-> 6, needed |-> 1]
Draw(toss, res, pick, rest) ==
    [toss |-> toss, res |-> res, pick |-> pick,
     g_runs |-> rest.g_runs, u_ao1 |-> rest.u_ao1, g_b1 |-> rest.g_b1,
     g_margin |-> rest.g_margin, u_ao2 |-> rest.u_ao2, g_b2 |-> rest.g_b2,
     g_noise |-> rest.g_noise, win_ball |-> rest.win_ball, needed |-> rest.needed]
PlanDraws ==
    {Draw(toss, res, pick, rest) :
        toss \in {1, 60}, res \in {1, 99}, pick \in {1, 2},
        rest \in {QuietDraws, EventfulDraws}}

\* monte_carlo_planner up to the creation of rng (lines 514-539)
CallPlanner(fixtures, focus_team, iterations, use_nrr, confidence) ==
    /\ pc = "idle"
    /\ call' = [op |-> "monte_carlo_planner", fixtures |-> fixtures,
                focus_team |-> focus_team, iterations |-> iterations,
                use_nrr |-> use_nrr, confidence |-> confidence]
    /\ pre' = heap["base"]
    /\ run' = [NoRun EXCEPT !.top4_count = [t \in DOMAIN heap["base"] |-> 0],
                            !.top2_count = [t \in DOMAIN heap["base"] |-> 0]]
    /\ IF PlannerInputValid(heap["base"], fixtures, focus_team, iterations, confidence)
       THEN pc' = "plan" /\ outcome' = "running"
       ELSE pc' = "failed" /\ outcome' = "error"
    /\ UNCHANGED <<heap, order, table, nmatches, search>>

\* _run_one, line 398
RunOneBegin ==
    /\ pc = "plan"
    /\ LET cp == deepcopy(heap, "base")
       IN  /\ heap' = cp.heap
           /\ run' = [run EXCEPT !.state = cp.ref, !.fi = 0]
    /\ table' = <<>>
    /\ pc' = "fixture"
    /\ UNCHANGED <<order, pre, call, outcome, nmatches, search>>

\* _run_one, one turn of the loop over the fixtures (lines 402-496)
RunOneFixture ==
    /\ pc = "fixture"
    /\ run.fi < Len(call.fixtures)
    /\ LET fx == call.fixtures[run.fi + 1]
       IN  IF ~FixtureValid(heap["base"], fx)
           THEN /\ pc' = "failed" /\ outcome' = "error"
                /\ UNCHANGED <<heap, run>>
           ELSE \E d \in PlanDraws :
                  LET r == PlayFixture(heap[run.state], order, fx, d, call.use_nrr)
                  IN  /\ heap' = [heap EXCEPT ![run.state] = r.st]
                      /\ run' = [run EXCEPT !.fi = @ + 1, !.draws = @ + r.n,
                                            !.sims = @ + 1]
                      /\ IF r.ok
                         THEN pc' = "fixture" /\ outcome' = outcome
                         ELSE pc' = "failed" /\ outcome' = "error"
    /\ UNCHANGED <<order, pre, call, table, nmatches, search>>

\* the end of _run_one and the tallies of monte_carlo_planner (lines 498, 547-554)
RunOneEnd ==
    /\ pc = "fixture"
    /\ run.fi = Len(call.fixtures)
    /\ LET final_table == compute_sorted_table(heap[run.state], order)
           top4 == TopOf(final_table, 4)
           top2 == TopOf(final_table, 2)
       IN  /\ table' = final_table
           /\ run' = [run EXCEPT
                        !.it = @ + 1,
                        !.top4_count = [t \in DOMAIN @ |-> @[t] + IF t \in top4 THEN 1 ELSE 0],
                        !.top2_count = [t \in DOMAIN @ |-> @[t] + IF t \in top2 THEN 1 ELSE 0]]
    /\ IF run.it + 1 = call.iterations
       THEN pc' = "done" /\ outcome' = "ok"
       ELSE pc' = "plan" /\ outcome' = outcome
    /\ UNCHANGED <<heap, order, pre, call, nmatches, search>>

\* A solver from its entry to the end of the feasibility probe
CallSolver(op, team, opponent_team, target_team, score, balls) ==
    /\ pc = "idle"
    /\ LET q == [op |-> op, focus |-> Norm(team), opponent |-> Norm(opponent_team),
                 competitor |-> Norm(target_team), score |-> score, balls |-> balls]
       IN  /\ call' = q
           /\ pre' = heap["base"]
           /\ IF ~SolverInputValid(heap["base"], q)
              THEN /\ pc' = "done" /\ outcome' = "rejected"
                   /\ search' = NoSearch
                   /\ UNCHANGED <<heap, table>>
              ELSE LET r == check(heap, order, q, FirstProbe(q))
                   IN  /\ heap' = r.heap
                       /\ table' = <<>>
                       /\ search' = [lo |-> SearchLo(q), hi |-> SearchHi(q),
                                     best |-> None, probes |-> 1]
                       /\ IF ~r.ok THEN pc' = "failed" /\ outcome' = "error"
                          ELSE IF ~r.above THEN pc' = "done" /\ outcome' = "infeasible"
                          ELSE pc' = "solve" /\ outcome' = "running"
    /\ UNCHANGED <<order, nmatches, run>>

\* One turn of the binary search; the solver returns when lo passes hi
ProbeStep ==
    /\ pc = "solve"
    /\ search.lo <= search.hi
    /\ LET mid == (search.lo + search.hi) \div 2
           r == check(heap, order, call, mid)
           s == Narrow(call, search, mid, r.above)
       IN  /\ heap' = r.heap
           /\ IF ~r.ok
              THEN /\ pc' = "failed" /\ outcome' = "error"
                   /\ search' = [search EXCEPT !.probes = @ + 1]
              ELSE /\ search' = s
                   /\ IF s.lo <= s.hi
                      THEN pc' = "solve" /\ outcome' = outcome
                      ELSE pc' = "done" /\ outcome' = "ok"
    /\ UNCHANGED <<order, pre, call, table, nmatches, run>>

SolverNames == {"A", " a ", "X"}
SolverOpponents == {"B", "b", "A"}
SolverTargets == {"B", "C", "D", "E"}
SolverScores == {0, 1, 3, 4}
SolverBalls == {0, 7, 120, 121}

PlannerStep ==
    \E fixtures \in FixtureLists, focus_team \in {"A", "X"},
       iterations \in 0..MaxIterations, use_nrr \in BOOLEAN,
       confidence \in {40, 70, 96} :
        CallPlanner(fixtures, focus_team, iterations, use_nrr, confidence)

SolverStep ==
    \E op \in SolverOps, team \in SolverNames, opponent_team \in SolverOpponents,
       target_team \in SolverTargets, score \in SolverScores, balls \in SolverBalls :
        /\ op = "chase_win_max_balls" => balls = MAX_BALLS_T20
        /\ CallSolver(op, team, opponent_team, target_team, score, balls)

InitPlan ==
    /\ order = PlanOrder
    /\ call = NoCall
    /\ outcome = "none"
    /\ table = <<>>
    /\ nmatches = 0
    /\ pc = "idle"
    /\ run = NoRun
    /\ search = NoSearch
    /\ \E s \in PlanBaseStates : heap = [o \in Objs |-> s] /\ pre = s

NextPlan ==
    \/ PlannerStep
    \/ RunOneBegin
    \/ RunOneFixture
    \/ RunOneEnd
    \/ SolverStep
    \/ ProbeStep

SpecPlan == InitPlan /\ [][NextPlan]_vars

----------------------------------------------------------------------------
(* Claims on the planner and the threshold solvers *)

IsPlan == call.op = "monte_carlo_planner"
IsSolve == call.op \in SolverOps

\* C9: during and after a call of monte_carlo_planner or of a threshold
\* solver, whether it succeeds, reports infeasibility or fails, every row
\* counter and every aggregate counter of the caller's base state has the
\* value it had before the call; the matches are simulated on another object.
C9_BaseStateNeverMutated ==
    (IsPlan \/ IsSolve) =>
        /\ DOMAIN heap["base"] = DOMAIN pre
        /\ \A t \in DOMAIN pre :
              SameOn(heap["base"][t], pre[t], RowFields \cup AggFields)
        /\ (IsPlan /\ run.sims > 0) => run.state # "base"

\* a planner call has returned after simulating two fixtures per iteration,
\* and the object it worked on no longer equals the base state
C9_Witness ==
    /\ IsPlan /\ pc = "done" /\ outcome = "ok"
    /\ run.it = 2 /\ run.sims = 4
    /\ heap[run.state] # pre
    /\ \E t \in DOMAIN pre : heap[run.state][t].points > pre[t].points

\* the invalid inputs of monte_carlo_planner, on the recorded call
C10_InvalidInput ==
    \/ call.focus_team \notin DOMAIN pre
    \/ \E i \in DOMAIN call.fixtures :
          \/ call.fixtures[i].team1 \notin DOMAIN pre
          \/ call.fixtures[i].team2 \notin DOMAIN pre
          \/ call.fixtures[i].team1 = call.fixtures[i].team2
          \/ call.fixtures[i].nr_probability < 0
          \/ call.fixtures[i].tie_probability < 0
          \/ call.fixtures[i].nr_probability + call.fixtures[i].tie_probability > 100
    \/ call.iterations <= 0
    \/ call.confidence < 50
    \/ call.confidence > 95

\* C10: monte_carlo_planner called with an unknown focus team, with a
\* fixture naming an unknown team or the same team twice or carrying a
\* negative probability or probabilities summing above 1, with iterations
\* <= 0 or with a confidence outside [0.50, 0.95] fails, and it has then drawn
\* no random number and simulated no fixture, at whatever place of the list
\* the bad fixture stands.
C10_ValidationBeforeSampling ==
    (IsPlan /\ C10_InvalidInput) =>
        /\ pc = "failed" /\ outcome = "error"
        /\ run.draws = 0 /\ run.sims = 0 /\ run.it = 0

\* the call is valid but for its second fixture, and it has failed
C10_Witness ==
    /\ IsPlan /\ pc = "failed"
    /\ call.focus_team \in DOMAIN pre
    /\ call.iterations > 0
    /\ call.confidence = 70
    /\ Len(call.fixtures) = 2
    /\ FixtureValid(pre, call.fixtures[1])
    /\ ~FixtureValid(pre, call.fixtures[2])
    /\ run.draws = 0

\* the fixtures of the call all have nr_probability = 1.0
AllNoResult ==
    \A i \in DOMAIN call.fixtures : call.fixtures[i].nr_probability = 100

\* an iteration of the planner has played all its fixtures
IterationFinal ==
    \/ pc = "fixture" /\ run.fi = Len(call.fixtures)
    \/ pc \in {"plan", "done"} /\ run.it > 0

\* the number of fixtures of the call in which team t appears
Appearances(t) ==
    Cardinality({i \in DOMAIN call.fixtures :
                    t \in {call.fixtures[i].team1, call.fixtures[i].team2}})

\* C11: in a planner run whose fixtures all have nr_probability = 1.0 the
\* working state keeps, for every team, the four aggregate counters of the
\* base state, and in the final state of every iteration each team's points
\* are its base points plus the number of fixtures it appears in.
C11_AllNoResultKeepsAggregates ==
    (IsPlan /\ pc \in {"fixture", "plan", "done"} /\ AllNoResult) =>
        /\ \A t \in DOMAIN pre : SameOn(heap[run.state][t], pre[t], AggFields)
        /\ IterationFinal =>
              \A t \in DOMAIN pre :
                  /\ heap[run.state][t].points = pre[t].points + Appearances(t)
                  /\ heap[run.state][t].nr = pre[t].nr + Appearances(t)

\* the second iteration of a run over two no-result fixtures has ended
C11_Witness ==
    /\ IsPlan /\ AllNoResult /\ pc = "done" /\ run.it = 2
    /\ Len(call.fixtures) = 2
    /\ call.use_nrr
    /\ \E t \in DOMAIN pre : Appearances(t) = 2 /\ heap[run.state][t].points = pre[t].points + 2

----------------------------------------------------------------------------
(* The planner called twice with the same arguments and the same seed *)

RerunFixtureLists ==
    {<<Fixture("A", "B", "toss", 50, 50)>>,
     <<Fixture("C", "A", "team2", 0, 0)>>,
     <<Fixture("A", "B", "toss", 0, 0), Fixture("C", "A", "toss", 0, 0)>>,
     <<Fixture("C", "B", "team1", 0, 0), Fixture("A", "B", "toss", 50, 50)>>,
     <<Fixture("C", "A", "toss", 100, 0), Fixture("C", "B", "toss", 0, 0)>>,
     <<Fixture("A", "B", "toss", 0, 0), Fixture("A", "X", "toss", 0, 0)>>}

RerunDraws ==
    {Draw(1, 1, 1, QuietDraws), Draw(60, 99, 2, QuietDraws),
     Draw(60, 1, 1, EventfulDraws), Draw(1, 99, 2, EventfulDraws)}

\* a seed is the stream of draws it produces
Seeds == {<<a, b, c>> : a \in RerunDraws, b \in RerunDraws, c \in RerunDraws}

NoRerun == [calls |-> 0, used |-> 0, first |-> None, second |-> None]

\* monte_carlo_planner(base_state, fixtures, focus_team, iterations, seed, ...)
CallPlannerSeeded(fixtures, focus_team, iterations, use_nrr, confidence, seed) ==
    /\ pc = "idle"
    /\ LET q == [op |-> "monte_carlo_planner", fixtures |-> fixtures,
                 focus_team |-> focus_team, iterations |-> iterations,
                 use_nrr |-> use_nrr, confidence |-> confidence, seed |-> seed]
       IN  \E r \in {monte_carlo_planner(heap, order, q, seed, 0)} :
           /\ call' = q
           /\ pre' = heap["base"]
           /\ heap' = r.heap
           /\ table' = r.result
           /\ outcome' = IF r.ok THEN "ok" ELSE "error"
           /\ run' = [calls |-> 1, used |-> r.rng.pos,
                      first |-> Some([ok |-> r.ok, result |-> r.result]),
                      second |-> None]
    /\ pc' = "called"
    /\ UNCHANGED <<order, nmatches, search>>

\* the same call made again on the same base_state object
CallPlannerAgain ==
    /\ pc = "called"
    /\ \E r \in {monte_carlo_planner(heap, order, call, call.seed, run.used)} :
           /\ heap' = r.heap
           /\ table' = r.result
           /\ outcome' = IF r.ok THEN "ok" ELSE "error"
           /\ run' = [run EXCEPT !.calls = 2, !.used = r.rng.pos,
                                 !.second = Some([ok |-> r.ok, result |-> r.result])]
    /\ pc' = "done"
    /\ UNCHANGED <<order, pre, call, nmatches, search>>

SeededStep ==
    \E fixtures \in RerunFixtureLists, focus_team \in {"A"},
       iterations \in 1..MaxIterations, use_nrr \in BOOLEAN,
       confidence \in {70}, seed \in Seeds :
        CallPlannerSeeded(fixtures, focus_team, iterations, use_nrr, confidence, seed)

InitRerun ==
    /\ order = PlanOrder
    /\ call = NoCall
    /\ outcome = "none"
    /\ table = <<>>
    /\ nmatches = 0
    /\ pc = "idle"
    /\ run = NoRerun
    /\ search = NoSearch
    /\ \E s \in PlanBaseStates : heap = [o \in Objs |-> s] /\ pre = s

NextRerun == SeededStep \/ CallPlannerAgain

SpecRerun == InitRerun /\ [][NextRerun]_vars

\* C12: the planner called a second time with the same base state, fixtures,
\* focus team, iterations, confidence, use_nrr and seed gives the same
\* outcome, the same top-4 and top-2 probabilities and the same samples for
\* the requirement summaries as the first call.
C12_SameSeedSameOutput ==
    (call.op = "monte_carlo_planner" /\ run.calls = 2) =>
        /\ run.second = run.first
        /\ heap["base"] = pre

\* both calls returned, after two iterations over two fixtures in which a
\* team reached the top four in one iteration only
C12_Witness ==
    /\ call.op = "monte_carlo_planner" /\ run.calls = 2
    /\ Val(run.first).ok /\ Val(run.second).ok
    /\ call.iterations = 2 /\ Len(call.fixtures) = 2 /\ call.use_nrr
    /\ \E t \in DOMAIN pre :
          /\ Val(Val(run.second).result).top4_probability[t] = <<1, 2>>
          /\ \E k \in DOMAIN Val(Val(run.second).result).requirements[t].metas :
                Val(Val(run.second).result).requirements[t].metas[k].won = Some(TRUE)

----------------------------------------------------------------------------
(* One call of a threshold solver, over more tables, names and numbers *)

\* A and C level on points with close run rates
PlanTight ==
    [PlanBase EXCEPT !["C"] = TeamRow(2, 1, 1, 0, 0, 2, 5, 24, 4, 24)]

SolveBaseStates == PlanBaseStates \cup {PlanTight}

SolveNames == {"A", " a ", "b", "C", "X"}
SolveScores == {-1, 0, 1, 3, 6, 9}
SolveBalls == {0, 7, 60, 120, 121}

SolverStepWide ==
    \E op \in SolverOps, team \in SolveNames, opponent_team \in SolveNames,
       target_team \in SolveNames \cup {"D", "E"}, score \in SolveScores,
       balls \in SolveBalls :
        /\ op = "chase_win_max_balls" => balls = MAX_BALLS_T20
        /\ CallSolver(op, team, opponent_team, target_team, score, balls)

InitSolve ==
    /\ order = PlanOrder
    /\ call = NoCall
    /\ outcome = "none"
    /\ table = <<>>
    /\ nmatches = 0
    /\ pc = "idle"
    /\ run = NoRun
    /\ search = NoSearch
    /\ \E s \in SolveBaseStates : heap = [o \in Objs |-> s] /\ pre = s

NextSolve == SolverStepWide \/ ProbeStep

SpecSolve == InitSolve /\ [][NextSolve]_vars

----------------------------------------------------------------------------
(* Claims on the threshold solvers *)

\* the solver has returned or let an exception escape
Returned == pc \in {"done", "failed"}

\* the arguments pass the solver's checks and name two different teams to play.
\* A call whose focus and opponent coincide is left to C17.
SolvableCall ==
    /\ call.score > 0
    /\ call.op # "chase_win_max_balls" => (call.balls >= 1 /\ call.balls <= 120)
    /\ {call.focus, call.opponent, call.competitor} \subseteq DOMAIN pre
    /\ call.focus # call.opponent

\* the focus team is ranked above the competitor after the hypothetical match
\* with search variable x, played on the base state as it was before the call
Above(x) == check([o \in Objs |-> pre], order, call, x).above

\* what a linear scan of the domain lo..hi finds
Passing(lo, hi) == {x \in lo..hi : Above(x)}
Least(S) == CHOOSE x \in S : \A y \in S : x <= y
Greatest(S) == CHOOSE x \in S : \A y \in S : x >= y

\* C13: for valid inputs chase_loss_min_score returns ok with the least x in
\* 0..target_score-1 at which the focus team stays above the competitor, and
\* returns ok = false with no value exactly when there is no such x.
C13_ChaseLossMinimum ==
    (call.op = "chase_loss_min_score" /\ SolvableCall /\ Returned) =>
        IF Passing(0, call.score - 1) = {}
        THEN outcome = "infeasible" /\ search.best = None
        ELSE outcome = "ok" /\ search.best = Some(Least(Passing(0, call.score - 1)))

\* the solver returned a minimum that is neither end of its domain
C13_Witness ==
    /\ call.op = "chase_loss_min_score" /\ SolvableCall /\ pc = "done"
    /\ outcome = "ok" /\ call.score = 9
    /\ Val(search.best) > 0 /\ Val(search.best) < call.score - 1
    /\ ~Above(Val(search.best) - 1)

\* C14: in chase_loss_min_score, whatever the base state, target score, ball
\* count and teams (competitor = opponent included), a score x that keeps the
\* focus team above the competitor implies every y with x < y <=
\* target_score - 1 keeps it above too.
C14_ChaseLossProbeMonotone ==
    (call.op = "chase_loss_min_score" /\ pc # "idle"
        /\ {call.focus, call.opponent, call.competitor} \subseteq DOMAIN pre) =>
        \A x \in 0..(call.score - 1) : \A y \in (x + 1)..(call.score - 1) :
            Above(x) => Above(y)

\* competitor = opponent, and the probe fails at some score and passes above it
C14_Witness ==
    /\ call.op = "chase_loss_min_score" /\ SolvableCall /\ Returned
    /\ call.competitor = call.opponent
    /\ \E x \in 0..(call.score - 1) : \E y \in (x + 1)..(call.score - 1) :
          ~Above(x) /\ Above(y)

\* C15: for valid inputs defend_win_max_opp_score returns ok with the greatest
\* x in 0..defending_score-1 at which the defending team stays above the
\* competitor, and returns ok = false with no value exactly when x = 0 fails,
\* which is exactly when no x of the domain passes.
C15_DefendWinMaximum ==
    (call.op = "defend_win_max_opp_score" /\ SolvableCall /\ Returned) =>
        /\ (outcome = "infeasible") <=> ~Above(0)
        /\ ~Above(0) <=> (Passing(0, call.score - 1) = {})
        /\ IF Passing(0, call.score - 1) = {}
           THEN outcome = "infeasible" /\ search.best = None
           ELSE outcome = "ok"
                /\ search.best = Some(Greatest(Passing(0, call.score - 1)))

\* the solver returned a maximum below the top of its domain
C15_Witness ==
    /\ call.op = "defend_win_max_opp_score" /\ SolvableCall /\ pc = "done"
    /\ outcome = "ok"
    /\ Val(search.best) < call.score - 1
    /\ ~Above(Val(search.best) + 1)

\* C16: for valid inputs chase_win_max_balls returns ok with the greatest b in
\* 1..120 at which the chasing team, scoring target_score + 1 in b balls, ends
\* above the competitor, and returns ok = false with no value exactly when
\* b = 1 fails, which is exactly when no b in 1..120 passes.
C16_ChaseWinMaximum ==
    (call.op = "chase_win_max_balls" /\ SolvableCall /\ Returned) =>
        /\ (outcome = "infeasible") <=> ~Above(1)
        /\ ~Above(1) <=> (Passing(1, 120) = {})
        /\ IF Passing(1, 120) = {}
           THEN outcome = "infeasible" /\ search.best = None
           ELSE outcome = "ok" /\ search.best = Some(Greatest(Passing(1, 120)))

\* the solver returned a number of balls strictly inside 1..120
C16_Witness ==
    /\ call.op = "chase_win_max_balls" /\ SolvableCall /\ pc = "done"
    /\ outcome = "ok"
    /\ Val(search.best) > 1 /\ Val(search.best) < 120
    /\ ~Above(Val(search.best) + 1)

\* the search domain of the solver called
InDomain(v) ==
    IF call.op = "chase_win_max_balls" THEN v >= 1 /\ v <= 120
    ELSE v >= 0 /\ v <= call.score - 1

\* C17: each solver, for any focus, opponent and competitor names, known or
\* not, distinct or coinciding, and any integer score and ball count, returns
\* a ThresholdResult and never raises: ok = false without a value on invalid
\* input or infeasibility, ok = true with a value of the search domain
\* otherwise.
C17_SolversAlwaysReturn ==
    IsSolve =>
        /\ pc # "failed"
        /\ pc = "done" =>
              \/ outcome \in {"rejected", "infeasible"} /\ search.best = None
              \/ outcome = "ok" /\ ~IsNone(search.best) /\ InDomain(Val(search.best))

----------------------------------------------------------------------------
(* One call of build_state_from_standings *)

StandingsRecord(code, team, matches, rf, bf, ra, ba) ==
    [code |-> code, team |-> team, matches |-> matches,
     won |-> Num(1), lost |-> Absent, nr |-> Raw("blank", 0), tied |-> Num(0),
     points |-> Raw("frac", 25),
     runs_for |-> rf, balls_for |-> bf, runs_against |-> ra, balls_against |-> ba]

StandingsRecords ==
    {StandingsRecord(code, team, matches, rf, bf, ra, ba) :
        code \in {"", "b", "A"}, team \in {"", "3 Cee CC"},
        matches \in {Absent, Num(0), Num(2), Num(-1), Raw("text", 0), Raw("frac", 5)},
        rf \in {Absent, Raw("nan", 0), Raw("text", 0), Num(0), Num(7)},
        bf \in {Num(6)},
        ra \in {Num(3), Absent},
        ba \in {Num(6), Raw("blank", 0)}}

FirstRecords ==
    {StandingsRecord("A", "", Num(0), Absent, Absent, Absent, Absent),
     StandingsRecord("", "alpha", Num(2), Num(9), Num(12), Num(8), Num(12))}

StandingsLists ==
    {<<>>}
    \cup {<<t>> : t \in StandingsRecords}
    \cup {<<f, t>> : f \in FirstRecords, t \in StandingsRecords}

\* build_state_from_standings(standings); table holds what it returned
CallBuildState(teams) ==
    /\ pc = "idle"
    /\ LET r == build_state_from_standings(teams)
       IN  /\ call' = [op |-> "build_state_from_standings", teams |-> teams]
           /\ table' = r
           /\ outcome' = IF IsNone(r) THEN "error" ELSE "ok"
    /\ pc' = "done"
    /\ UNCHANGED <<heap, order, pre, nmatches, run, search>>

BuildStep == \E teams \in StandingsLists : CallBuildState(teams)

InitBuild ==
    /\ InitCommon
    /\ heap = [o \in Objs |-> <<>>] /\ pre = <<>>

SpecBuild == InitBuild /\ [][BuildStep]_vars

IsBuild == call.op = "build_state_from_standings"

\* the record carries a team code of its own or a display name
Named(t) == t.code # "" \/ t.team # ""
\* the code under which the record is stored
CodeOf(t) ==
    CASE t.code = "b" -> "B"
      [] t.code = "A" -> "A"
      [] t.team = "3 Cee CC" -> "CC"
      [] t.team = "alpha" -> "ALPHA"
\* the record states its matches played as a whole number
MatchesGiven(t) == t.matches.kind = "num"
\* the aggregate is absent, null, blank or not a number
Missing(x) == x.kind \in {"none", "blank", "nan"}
AggregateKeys == {"runs_for", "balls_for", "runs_against", "balls_against"}
\* record i is the last one stored under its code
LastOfCode(i) ==
    \A j \in DOMAIN call.teams :
        (j > i /\ Named(call.teams[j])) => CodeOf(call.teams[j]) # CodeOf(call.teams[i])

\* C18: a team record with matches played = 0 gets every missing aggregate
\* set to zero; a team record with matches played # 0 and one of runs_for,
\* balls_for, runs_against, balls_against missing makes
\* build_state_from_standings fail and return no state, so no row ever holds
\* a zero put in place of an aggregate missing after matches were played.
C18_MissingAggregates ==
    IsBuild =>
        /\ (\E i \in DOMAIN call.teams :
               /\ Named(call.teams[i]) /\ MatchesGiven(call.teams[i])
               /\ call.teams[i].matches.val # 0
               /\ \E k \in AggregateKeys : Missing(call.teams[i][k]))
           => (outcome = "error" /\ table = None)
        /\ outcome = "ok" =>
              \A i \in DOMAIN call.teams :
                  (/\ Named(call.teams[i]) /\ MatchesGiven(call.teams[i])
                   /\ call.teams[i].matches.val = 0 /\ LastOfCode(i)) =>
                      /\ CodeOf(call.teams[i]) \in DOMAIN Val(table)
                      /\ \A k \in AggregateKeys :
                            Missing(call.teams[i][k]) =>
                                Val(table)[CodeOf(call.teams[i])][k] = 0

\* a pre-season record with two aggregates missing was stored with zeros in
\* their place, after the record of a team that has played
C18_Witness ==
    /\ IsBuild /\ outcome = "ok" /\ Len(call.teams) = 2
    /\ call.teams[2].matches = Num(0)
    /\ Missing(call.teams[2].runs_for) /\ Missing(call.teams[2].balls_against)
    /\ call.teams[2].code = "b"
    /\ Val(table)["B"].runs_for = 0 /\ Val(table)["B"].balls_against = 0
    /\ Val(table)["B"].runs_against = 3
    /\ "ALPHA" \in DOMAIN Val(table)

----------------------------------------------------------------------------
(* One call of overs_to_balls on a text *)

OversChars == {"0", "1", "2", "4", "6", "9", "-", "."}
OversTexts ==
    {<<a>> : a \in OversChars}
    \cup {<<a, b>> : a \in OversChars, b \in OversChars}
    \cup {<<a, b, c>> : a \in OversChars, b \in OversChars, c \in OversChars}
    \cup {<<a, b, c, d>> : a \in OversChars, b \in OversChars,
                           c \in OversChars, d \in OversChars}

\* overs_to_balls(overs); table holds the balls returned, None for ValueError
CallOversToBalls(chars) ==
    /\ pc = "idle"
    /\ call' = [op |-> "overs_to_balls", overs |-> chars]
    /\ table' = overs_to_balls_text(chars)
    /\ outcome' = IF IsNone(overs_to_balls_text(chars)) THEN "error" ELSE "ok"
    /\ pc' = "done"
    /\ UNCHANGED <<heap, order, pre, nmatches, run, search>>

OversStep == \E chars \in OversTexts : CallOversToBalls(chars)

SpecOvers == InitBuild /\ [][OversStep]_vars

\* the decimal notation of a natural number
RECURSIVE Dec(_)
Dec(n) == IF n < 10 THEN <<Digits[n + 1]>> ELSE Dec(n \div 10) \o <<Digits[(n % 10) + 1]>>

\* C19: overs_to_balls gives 6*w for whole overs w >= 0 and 6*w + b for the
\* notation "w.b" with one digit b in 0..5 ("19.4" gives 118, "20" gives
\* 120); it fails when the digit after the point is 6 or more, when the part
\* after the point is negative, and when the whole-overs part is negative.
C19_OversToBalls ==
    call.op = "overs_to_balls" =>
        \A w \in 0..99 :
            /\ call.overs = Dec(w) => table = Some(6 * w)
            /\ (w > 0 /\ call.overs = <<"-">> \o Dec(w)) => table = None
            /\ \A b \in 0..9 :
                  /\ call.overs = Dec(w) \o <<".">> \o Dec(b) =>
                        table = IF b <= 5 THEN Some(6 * w + b) ELSE None
                  /\ (b > 0 /\ call.overs = Dec(w) \o <<".", "-">> \o Dec(b)) =>
                        table = None
                  /\ (w > 0 /\ call.overs = <<"-">> \o Dec(w) \o <<".">> \o Dec(b)) =>
                        table = None

\* "19.4" was converted
C19_Witness ==
    /\ call.op = "overs_to_balls"
    /\ call.overs = <<"1", "9", ".", "4">>
    /\ table = Some(118)

----------------------------------------------------------------------------
(* Claims on the balls credited by simulate_match *)

BallsFields == {"balls_for", "balls_against"}

\* C20: every innings simulate_match credits is a whole number of deliveries
\* from 1 to 120: whatever overs it accepts, a balls_for or balls_against
\* counter it changes grows by at least 1 and at most 120 in the match, and
\* no counter decreases.
C20_InningsBallsBounded ==
    IsSim =>
        \A t \in DOMAIN pre : \A f \in BallsFields :
            /\ heap["base"][t][f] >= pre[t][f]
            /\ heap["base"][t][f] # pre[t][f] =>
                  (/\ heap["base"][t][f] - pre[t][f] >= 1
                   /\ heap["base"][t][f] - pre[t][f] <= 120)

----------------------------------------------------------------------------
(* Claims on sums over the teams of a state *)

\* the sum of field f over the teams in S
RECURSIVE SumOver(_, _, _)
SumOver(st, f, S) ==
    IF S = {} THEN 0
    ELSE LET t == CHOOSE x \in S : TRUE
         IN  st[t][f] + SumOver(st, f, S \ {t})

Total(st, f) == SumOver(st, f, DOMAIN st)

\* C21: every call adds to the total of runs_for what it adds to the total
\* of runs_against, and to the total of balls_for what it adds to the total
\* of balls_against; so totals that are equal stay equal through any
\* sequence of matches.
C21_ForAgainstSymmetry ==
    [][/\ Total(heap'["base"], "runs_for") - Total(heap["base"], "runs_for")
            = Total(heap'["base"], "runs_against") - Total(heap["base"], "runs_against")
       /\ Total(heap'["base"], "balls_for") - Total(heap["base"], "balls_for")
            = Total(heap'["base"], "balls_against") - Total(heap["base"], "balls_against")
       /\ (Total(heap["base"], "runs_for") = Total(heap["base"], "runs_against")
              => Total(heap'["base"], "runs_for") = Total(heap'["base"], "runs_against"))
       /\ (Total(heap["base"], "balls_for") = Total(heap["base"], "balls_against")
              => Total(heap'["base"], "balls_for") = Total(heap'["base"], "balls_against"))]_vars

\* a second match credited innings of different runs and balls to a state
\* whose totals were equal
C21_Witness ==
    /\ nmatches = 2
    /\ call.op = "simulate_match" /\ outcome = "ok"
    /\ Total(pre, "runs_for") = Total(pre, "runs_against")
    /\ Total(pre, "runs_for") > 0
    /\ Total(heap["base"], "runs_for") > Total(pre, "runs_for")
    /\ \E t \in DOMAIN pre :
          /\ heap["base"][t].balls_for - pre[t].balls_for = MAX_BALLS_T20
          /\ heap["base"][t].balls_against - pre[t].balls_against = 7
          /\ heap["base"][t].runs_for # heap["base"][t].runs_against

----------------------------------------------------------------------------
(* compute_sorted_table on teams that are level on points and net run rate *)

\* a team that has won its one match by margin runs, both sides batting
\* their twenty overs
OneWinRow(rf, margin) == TeamRow(1, 1, 0, 0, 0, 2, rf, 120, rf - margin, 120)

OneWinRows == {OneWinRow(rf, margin) : rf \in 121..126, margin \in {1, 2}}

InitTies ==
    /\ order \in Orders
    /\ \E s \in [Teams -> OneWinRows] : heap = [o \in Objs |-> s] /\ pre = s
    /\ call = NoCall
    /\ outcome = "none"
    /\ table = <<>>
    /\ nmatches = 0
    /\ pc = "idle"
    /\ run = NoRun
    /\ search = NoSearch

SpecTies == InitTies /\ [][CallComputeSortedTable]_vars

\* the place of team t in the rows as supplied
PlaceOf(t) == CHOOSE k \in DOMAIN order : order[k] = t

\* C22: in the table of compute_sorted_table, two teams with equal points and
\* equal net run rate stand in the order in which their rows were supplied.
C22_TiesKeepInputOrder ==
    call.op = "compute_sorted_table" =>
        \A i \in DOMAIN table : \A j \in DOMAIN table :
            (/\ i < j
             /\ table[i].points = table[j].points
             /\ RatEq(nrr(table[i]), nrr(table[j])))
                => PlaceOf(table[i].team) < PlaceOf(table[j].team)

----------------------------------------------------------------------------
(* One iteration of the planner: _run_one on a stream of draws *)

\* what rng yields for the fixtures of one iteration
RunOneStreams == {<<a, b>> : a \in PlanDraws, b \in PlanDraws}

NoRunOne == [ok |-> FALSE, all_metas |-> <<>>, used |-> 0]

\* final_table, all_metas = _run_one(base_state, fixtures, rng, use_nrr)
CallRunOne(fixtures, use_nrr, stream) ==
    /\ pc = "idle"
    /\ \E r \in {_run_one(heap, order, fixtures, random_Random(stream, 0), use_nrr)} :
           /\ heap' = r.heap
           /\ table' = r.final_table
           /\ outcome' = IF r.ok THEN "ok" ELSE "error"
           /\ run' = [ok |-> r.ok, all_metas |-> r.all_metas, used |-> r.rng.pos]
    /\ call' = [op |-> "_run_one", fixtures |-> fixtures, use_nrr |-> use_nrr,
                stream |-> stream]
    /\ pre' = heap["base"]
    /\ pc' = "done"
    /\ UNCHANGED <<order, nmatches, search>>

RunOneStep ==
    \E fixtures \in RerunFixtureLists, use_nrr \in BOOLEAN, stream \in RunOneStreams :
        CallRunOne(fixtures, use_nrr, stream)

InitRunOne ==
    /\ order = PlanOrder
    /\ call = NoCall
    /\ outcome = "none"
    /\ table = <<>>
    /\ nmatches = 0
    /\ pc = "idle"
    /\ run = NoRunOne
    /\ search = NoSearch
    /\ \E s \in PlanBaseStates : heap = [o \in Objs |-> s] /\ pre = s

SpecRunOne == InitRunOne /\ [][RunOneStep]_vars

\* _run_one has returned its table and its metas
RanOne == call.op = "_run_one" /\ run.ok

\* the fields of a meta that say how the team fared
MetaFields ==
    {"batted_first", "won", "win_margin_runs", "chase_balls_used", "overshoot_runs",
     "loss_margin_runs", "loss_chase_runs_scored", "loss_defend_opp_balls_used"}

\* C23: an iteration that ends leaves one meta for every fixture and team,
\* |teams| x |fixtures| in all and in the order of the fixtures; the meta of
\* a team that does not play the fixture has played = false and none of the
\* batted-first, won, margin, balls and overshoot fields, and the metas of a
\* no-result or tied fixture have no won field.
C23_OneMetaPerFixtureAndTeam ==
    RanOne =>
        /\ Len(run.all_metas) = Len(order) * Len(call.fixtures)
        /\ \A i \in DOMAIN call.fixtures : \A k \in DOMAIN order :
              Cardinality({n \in DOMAIN run.all_metas :
                              /\ run.all_metas[n].fixture_index = i - 1
                              /\ run.all_metas[n].team = order[k]}) = 1
        /\ \A n \in DOMAIN run.all_metas : \A o \in DOMAIN run.all_metas :
              n < o => run.all_metas[n].fixture_index <= run.all_metas[o].fixture_index
        /\ \A n \in DOMAIN run.all_metas :
              LET m == run.all_metas[n]
                  fx == call.fixtures[m.fixture_index + 1]
              IN  /\ m.fixture = fx
                  /\ m.played = (m.team \in {fx.team1, fx.team2})
                  /\ ~m.played => \A f \in MetaFields : m[f] = None
                  /\ m.result \in {"NR", "TIE"} => m.won = None

\* two fixtures were played, the first one won and lost and the second one
\* washed out, and a team that played in neither has its two metas
C23_Witness ==
    /\ RanOne
    /\ Len(call.fixtures) = 2
    /\ \E n \in DOMAIN run.all_metas :
          run.all_metas[n].fixture_index = 0 /\ run.all_metas[n].won = Some(TRUE)
    /\ \E n \in DOMAIN run.all_metas :
          /\ run.all_metas[n].fixture_index = 1
          /\ run.all_metas[n].played /\ run.all_metas[n].result = "NR"
    /\ Cardinality({n \in DOMAIN run.all_metas :
                       run.all_metas[n].team = "E" /\ ~run.all_metas[n].played}) = 2

----------------------------------------------------------------------------
(* Claims on what monte_carlo_planner returns *)

\* the first call returned its dict
PlannerReturned == call.op = "monte_carlo_planner" /\ run.calls = 1 /\ outcome = "ok"

\* top4_count[t], the count of which top4_probability[t] is the share
Top4Count(res, t) == res.top4_probability[t][1]

----------------------------------------------------------------------------
(* The planner on leagues of two to five teams *)

LeagueSizes == 2..5

\* the first n teams of a base state
League(s, n) == [t \in {PlanOrder[i] : i \in 1..n} |-> s[t]]

LeagueFixtureLists ==
    {<<Fixture("A", "B", "toss", 0, 0)>>,
     <<Fixture("A", "B", "toss", 50, 50), Fixture("B", "A", "team1", 0, 0)>>}

InitLeague ==
    /\ \E n \in LeagueSizes, s \in PlanBaseStates :
          /\ order = SubSeq(PlanOrder, 1, n)
          /\ heap = [o \in Objs |-> League(s, n)]
          /\ pre = League(s, n)
    /\ call = NoCall
    /\ outcome = "none"
    /\ table = <<>>
    /\ nmatches = 0
    /\ pc = "idle"
    /\ run = NoRerun
    /\ search = NoSearch

LeagueStep ==
    \E fixtures \in LeagueFixtureLists, iterations \in 1..MaxIterations,
       use_nrr \in BOOLEAN, seed \in Seeds :
        CallPlannerSeeded(fixtures, "A", iterations, use_nrr, 70, seed)

SpecLeague == InitLeague /\ [][LeagueStep]_vars

\* top2_count[t], the count of which top2_probability[t] is the share
Top2Count(res, t) == res.top2_probability[t][1]

RECURSIVE SumOfCounts(_, _)
SumOfCounts(prob, S) ==
    IF S = {} THEN 0
    ELSE LET t == CHOOSE x \in S : TRUE
         IN  prob[t][1] + SumOfCounts(prob, S \ {t})

\* C30: with N teams every iteration puts min(4, N) teams in the top four
\* and min(2, N) in the top two, the top two among the top four: the top-4
\* counts add up to iterations x min(4, N), the top-2 counts to
\* iterations x min(2, N), and for every team
\* top2_count <= top4_count <= iterations.
C30_TopCounts ==
    PlannerReturned =>
        /\ SumOfCounts(Val(table).top4_probability, DOMAIN pre)
               = call.iterations * Min(4, Cardinality(DOMAIN pre))
        /\ SumOfCounts(Val(table).top2_probability, DOMAIN pre)
               = call.iterations * Min(2, Cardinality(DOMAIN pre))
        /\ \A t \in DOMAIN pre :
              /\ 0 <= Top2Count(Val(table), t)
              /\ Top2Count(Val(table), t) <= Top4Count(Val(table), t)
              /\ Top4Count(Val(table), t) <= call.iterations

\* two iterations in a league of five: a team was in the top four both
\* times and never in the top two, and another was in the top four and in
\* the top two once
C30_Witness ==
    /\ PlannerReturned
    /\ Cardinality(DOMAIN pre) = 5 /\ call.iterations = 2
    /\ \E t \in DOMAIN pre :
          Top4Count(Val(table), t) = 2 /\ Top2Count(Val(table), t) = 0
    /\ \E t \in DOMAIN pre :
          Top4Count(Val(table), t) = 1 /\ Top2Count(Val(table), t) = 1

----------------------------------------------------------------------------
(* The points and the matches played that one applied match adds *)

\* the teams whose row a call has changed
Touched == {t \in DOMAIN pre : heap["base"][t] # pre[t]}

\* C29: a call of apply_result or simulate_match that applies its match
\* (WIN, TIE or NR) adds exactly 2 to the total of points and exactly 2 to
\* the total of played, and changes the rows of at most two teams; a call
\* that ends in an error adds no points, so after k applied matches the
\* total of points is the initial total plus 2k.
C29_TwoPointsPerMatch ==
    /\ (call.op \in {"simulate_match", "apply_result"} /\ outcome = "ok") =>
          /\ Total(heap["base"], "points") = Total(pre, "points") + 2
          /\ Total(heap["base"], "played") = Total(pre, "played") + 2
          /\ Cardinality(Touched) <= 2
    /\ outcome = "error" => Total(heap["base"], "points") = Total(pre, "points")
    /\ Total(heap["base"], "points") <= Total(pre, "points") + 2
    /\ \E k \in 0..nmatches, s \in SeqBaseStates :
          Total(heap["base"], "points") = Total(s, "points") + 2 * k

\* a second match applied: a win of one team over another, after an earlier
\* applied match
C29_Witness ==
    /\ nmatches = 2 /\ outcome = "ok"
    /\ Cardinality(Touched) = 2
    /\ \E t \in Touched : heap["base"][t].points = pre[t].points + 2
    /\ \E t \in Touched : heap["base"][t].points = pre[t].points
                          /\ heap["base"][t].lost = pre[t].lost + 1
    /\ Total(pre, "points") \in {2, 8}
    /\ Total(heap["base"], "points") = Total(pre, "points") + 2

----------------------------------------------------------------------------
(* ipl_api/qualification.py *)

\* Fixture(team1, team2) of the qualification module
QualFixture(team1, team2) == [team1 |-> team1, team2 |-> team2]

\* a row of the table: the keys of the dict that the module reads, the net
\* run rate in millionths
QualRow(team, points, rate) == [team |-> team, points |-> points, nrr |-> rate]

RowTeams(tbl) == {tbl[i].team : i \in DOMAIN tbl}

\* the row that a dict built from the rows in order keeps for a team: the last
LastRowOf(tbl, t) ==
    tbl[CHOOSE i \in DOMAIN tbl :
            tbl[i].team = t /\ \A j \in DOMAIN tbl : j > i => tbl[j].team # t]

_current_points(tbl) == [t \in RowTeams(tbl) |-> LastRowOf(tbl, t).points]

\* matches_left[t]: one for every side of a fixture that t is
MatchesLeft(t, remaining_fixtures) ==
    Cardinality({i \in DOMAIN remaining_fixtures : remaining_fixtures[i].team1 = t})
    + Cardinality({i \in DOMAIN remaining_fixtures : remaining_fixtures[i].team2 = t})

_max_points(points, remaining_fixtures) ==
    [t \in DOMAIN points |-> points[t] + 2 * MatchesLeft(t, remaining_fixtures)]

_min_points(points) == points

\* str < str, on the names of the teams
NameLess(a, b) ==
    (CHOOSE i \in DOMAIN PlanOrder : PlanOrder[i] = a)
        < (CHOOSE i \in DOMAIN PlanOrder : PlanOrder[i] = b)

\* key_fn(row) < key_fn(other) on (pts, nrr, team)
SnapshotKeyLess(row, other) ==
    \/ row.points < other.points
    \/ row.points = other.points /\ row.nrr < other.nrr
    \/ row.points = other.points /\ row.nrr = other.nrr
          /\ NameLess(row.team, other.team)

\* sorted(table, key=key_fn, reverse=True) of the rows at the indices in S:
\* the rows of one key stay in the order of the table
RECURSIVE SnapshotSorted(_, _)
SnapshotSorted(tbl, S) ==
    IF S = {} THEN <<>>
    ELSE LET i == CHOOSE x \in S :
                     \A y \in S \ {x} :
                        \/ SnapshotKeyLess(tbl[y], tbl[x])
                        \/ ~SnapshotKeyLess(tbl[x], tbl[y]) /\ x < y
         IN  <<tbl[i]>> \o SnapshotSorted(tbl, S \ {i})

WithPos(ranked) ==
    [i \in DOMAIN ranked |->
        [team |-> ranked[i].team, points |-> ranked[i].points,
         nrr |-> ranked[i].nrr, pos |-> i]]

_rank_snapshot_points_nrr(tbl) == WithPos(SnapshotSorted(tbl, DOMAIN tbl))

\* sorted(points.values(), reverse=True) of the teams in S
RECURSIVE PointsDesc(_, _)
PointsDesc(points, S) ==
    IF S = {} THEN <<>>
    ELSE LET t == CHOOSE x \in S : \A y \in S : points[y] <= points[x]
         IN  <<points[t]>> \o PointsDesc(points, S \ {t})

_top4_cutoff_points(points) ==
    IF Cardinality(DOMAIN points) < 4 THEN 0
    ELSE PointsDesc(points, DOMAIN points)[4]

_top4_cutoff_points_nrr(tbl) ==
    IF Len(tbl) < 4 THEN [points |-> 0, nrr |-> 0, team_at_4th |-> None]
    ELSE LET r4 == _rank_snapshot_points_nrr(tbl)[4]
         IN  [points |-> r4.points, nrr |-> r4.nrr, team_at_4th |-> Some(r4.team)]

_is_guaranteed_qualified(team, max_pts) ==
    Cardinality({t \in DOMAIN max_pts : t # team /\ max_pts[t] > max_pts[team]}) <= 3

\* Variant: three teams sure to finish above are enough.
_is_guaranteed_eliminated_by_three(team, min_pts, max_pts) ==
    Cardinality({t \in DOMAIN min_pts : t # team /\ min_pts[t] > max_pts[team]}) >= 3

_is_guaranteed_eliminated(team, min_pts, max_pts) ==
    Cardinality({t \in DOMAIN min_pts : t # team /\ min_pts[t] > max_pts[team]}) >= 4

StatusOf(team, min_pts, max_pts) ==
    IF _is_guaranteed_eliminated(team, min_pts, max_pts) THEN "ELIMINATED"
    ELSE IF _is_guaranteed_qualified(team, max_pts) THEN "QUALIFIED"
    ELSE "IN_CONTENTION"

\* results["_meta"], without the note
MetaOf(tbl, points) ==
    [current_top4_cutoff_points_snapshot |-> _top4_cutoff_points(points),
     current_top4_cutoff_points_nrr_snapshot |-> _top4_cutoff_points_nrr(tbl),
     current_rank_snapshot_points_nrr |-> _rank_snapshot_points_nrr(tbl)]

BoundsOf(tbl, points, min_pts, max_pts) ==
    [k \in DOMAIN points \cup {"_meta"} |->
        IF k = "_meta" THEN MetaOf(tbl, points)
        ELSE [min_points |-> min_pts[k], max_points |-> max_pts[k],
              status |-> StatusOf(k, min_pts, max_pts)]]

\* the dict returned: one entry per team, and "_meta"
evaluate_qualification_bounds(tbl, remaining_fixtures) ==
    BoundsOf(tbl, _current_points(tbl), _min_points(_current_points(tbl)),
             _max_points(_current_points(tbl), remaining_fixtures))

----------------------------------------------------------------------------
(* Qualification bounds, and the remaining fixtures played out *)

QualPoints == {0, 2, 4}

\* A and B level on net run rate, in millionths
QualNrr == [t \in PlanTeams |->
               CASE t = "A" -> 100000 [] t = "B" -> 100000 [] t = "C" -> -50000
                 [] t = "D" -> 0 [] t = "E" -> 250000]

\* a state in which team t has p[t] points, all of them from wins
QualState(p) ==
    [t \in PlanTeams |-> TeamRow(p[t] \div 2, p[t] \div 2, 0, 0, 0, p[t], 0, 0, 0, 0)]
QualStates == {QualState(p) : p \in [PlanTeams -> QualPoints]}

\* the table of a state: a row per team, in the order of the state
QualTable(st) ==
    [i \in DOMAIN PlanOrder |->
        QualRow(PlanOrder[i], st[PlanOrder[i]].points, QualNrr[PlanOrder[i]])]

QualPairs == {QualFixture("A", "B"), QualFixture("C", "A"), QualFixture("D", "E")}
QualFixtureLists ==
    UNION {[1..n -> QualPairs] : n \in 0..MaxMatches}

\* what a remaining fixture can end in
QualEndings == {"team1", "team2", "TIE", "NR"}

NoBounds == [left |-> <<>>]

\* evaluate_qualification_bounds(table, remaining_fixtures)
CallEvaluateBounds(remaining_fixtures) ==
    /\ table' = Some(evaluate_qualification_bounds(QualTable(heap["base"]),
                                                   remaining_fixtures))
    /\ call' = [op |-> "evaluate_qualification_bounds",
                remaining_fixtures |-> remaining_fixtures]
    /\ run' = [left |-> remaining_fixtures]
    /\ outcome' = "ok"
    /\ pc' = "bounds"
    /\ UNCHANGED <<heap, pre, order, nmatches, search>>

\* the next remaining fixture is played and its result applied to the rows
PlayRemaining(fx, ending) ==
    LET r == apply_result(heap["base"], fx.team1, fx.team2,
                          IF ending \in {"team1", "team2"} THEN "WIN" ELSE ending,
                          IF ending = "team1" THEN Some(fx.team1)
                          ELSE IF ending = "team2" THEN Some(fx.team2) ELSE None)
    IN  /\ heap' = [heap EXCEPT !["base"] = r.st]
        /\ run' = [left |-> Tail(run.left)]
        /\ nmatches' = nmatches + 1
        /\ UNCHANGED <<pre, order, call, outcome, table, pc, search>>

InitQual ==
    /\ \E s \in QualStates : heap = [o \in Objs |-> s] /\ pre = s
    /\ order = PlanOrder
    /\ call = NoCall
    /\ outcome = "none"
    /\ table = <<>>
    /\ nmatches = 0
    /\ pc = "idle"
    /\ run = NoBounds
    /\ search = NoSearch

EvaluateStep ==
    /\ pc = "idle"
    /\ \E remaining_fixtures \in QualFixtureLists :
          CallEvaluateBounds(remaining_fixtures)

PlayStep ==
    /\ pc = "bounds"
    /\ run.left # <<>>
    /\ \E ending \in QualEndings : PlayRemaining(Head(run.left), ending)

NextQual == EvaluateStep \/ PlayStep

SpecQual == InitQual /\ [][NextQual]_vars

\* every remaining fixture has been given a result
SeasonOver == pc = "bounds" /\ run.left = <<>>

\* the teams that have strictly more points than t
AboveOnPoints(t) ==
    {u \in PlanTeams \ {t} : heap["base"][u].points > heap["base"][t].points}

\* C27: a team reported QUALIFIED has, whatever the results of the remaining
\* fixtures, at most 3 other teams above it on points when they are played.
C27_QualifiedIsTopFour ==
    SeasonOver =>
        \A t \in PlanTeams :
            Val(table)[t].status = "QUALIFIED" => Cardinality(AboveOnPoints(t)) <= 3

\* C28: a team reported ELIMINATED has, whatever the results of the remaining
\* fixtures, at least 4 other teams above it on points when they are played;
\* and the final points of every team lie between its min_points and its
\* max_points.
C28_EliminatedIsOut ==
    SeasonOver =>
        \A t \in PlanTeams :
            /\ Val(table)[t].status = "ELIMINATED" => Cardinality(AboveOnPoints(t)) >= 4
            /\ Val(table)[t].min_points <= heap["base"][t].points
            /\ heap["base"][t].points <= Val(table)[t].max_points

\* two fixtures played: a team was reported ELIMINATED although it had a
\* match left, and won it; another team ended on its max_points, a third on
\* its min_points with a match lost
C28_Witness ==
    /\ SeasonOver /\ nmatches = 2
    /\ \E t \in PlanTeams :
          /\ Val(table)[t].status = "ELIMINATED"
          /\ heap["base"][t].points = pre[t].points + 2
    /\ \E t \in PlanTeams :
          /\ Val(table)[t].max_points > Val(table)[t].min_points
          /\ heap["base"][t].points = Val(table)[t].max_points
    /\ \E t \in PlanTeams :
          /\ heap["base"][t].lost > pre[t].lost
          /\ heap["base"][t].points = Val(table)[t].min_points

----------------------------------------------------------------------------
(* The innings synthesized for a win *)

\* rng.choice([1, 1, 2, 2, 3, 4, 6]) and rng.choice([1, 2, 3, 4, 5, 6])
WinningBallRuns == {1, 2, 3, 4, 6}
NeededLastBall == 1..6

\* what rng yields to one _build_innings_for_win call: a first innings
\* below, within and above the clamp, all out or not, a chase short or long
InningsDraws ==
    {[QuietDraws EXCEPT !.g_runs = g, !.u_ao1 = u, !.g_noise = e,
                        !.win_ball = w, !.needed = k] :
        g \in {110, 171, 250}, u \in {1, 60}, e \in {-3, 40},
        w \in WinningBallRuns, k \in NeededLastBall}

NoInningsBuilt == [built |-> FALSE]

\* _build_innings_for_win(bat_first, bat_second, winner, rng)
CallBuildInningsForWin(bat_first, bat_second, winner, d) ==
    /\ pc = "idle"
    /\ run' = [built |-> TRUE,
               innings |-> _build_innings_for_win(bat_first, bat_second, winner, d)]
    /\ call' = [op |-> "_build_innings_for_win", bat_first |-> bat_first,
                bat_second |-> bat_second, winner |-> winner, d |-> d]
    /\ outcome' = "ok"
    /\ pc' = "done"
    /\ UNCHANGED <<heap, pre, order, table, nmatches, search>>

BuildInningsStep ==
    \E winner \in {"A", "B"}, d \in InningsDraws :
        CallBuildInningsForWin("A", "B", winner, d)

InitInnings ==
    /\ order = PlanOrder
    /\ call = NoCall
    /\ outcome = "none"
    /\ table = <<>>
    /\ nmatches = 0
    /\ pc = "idle"
    /\ run = NoInningsBuilt
    /\ search = NoSearch
    /\ heap = [o \in Objs |-> PlanLevel] /\ pre = PlanLevel

SpecInnings == InitInnings /\ [][BuildInningsStep]_vars

\* the innings of a win by the side batting second have been synthesized
ChaseWinBuilt == run.built /\ call.winner = call.bat_second

\* C25: in a synthesized chase win the chasing side scores at least the
\* target, first-innings runs plus 1; the overshoot is its score minus the
\* target, lies in 0..5 and is at most the runs of the winning ball minus 1.
C25_ChaseReachesTarget ==
    ChaseWinBuilt =>
        /\ run.innings.bs_runs >= run.innings.bf_runs + 1
        /\ run.innings.overshoot = run.innings.bs_runs - (run.innings.bf_runs + 1)
        /\ run.innings.overshoot \in 0..5
        /\ run.innings.overshoot <= call.d.win_ball - 1
        /\ call.d.win_ball \in WinningBallRuns

\* a chase won with a six when two were needed: four runs over the target
C25_Witness ==
    /\ ChaseWinBuilt
    /\ call.d.win_ball = 6 /\ call.d.needed = 2
    /\ run.innings.overshoot = 4
    /\ run.innings.bs_runs = run.innings.bf_runs + 5

----------------------------------------------------------------------------
(* The synthesized matches and the simulator *)

\* _run_one was given fixtures that pass the checks of the planner
RanOnValidFixtures ==
    /\ call.op = "_run_one"
    /\ \A i \in DOMAIN call.fixtures : FixtureValid(pre, call.fixtures[i])

\* the metas of the teams that played fixture number i (from 1)
PlayedMetas(i) ==
    {n \in DOMAIN run.all_metas :
        run.all_metas[n].fixture_index = i - 1 /\ run.all_metas[n].played}

\* the number of metas of team t that record the outcome won
MetaCount(t, won) ==
    Cardinality({n \in DOMAIN run.all_metas :
                    run.all_metas[n].team = t /\ run.all_metas[n].won = won})

\* C26: on fixtures that pass validation, whatever rng draws and whether
\* use_nrr is on or off, simulate_match accepts every synthesized match; a
\* synthesized WIN is won in the simulator by the winner that was sampled, so
\* of the metas of its two teams one has won = true and one won = false, and
\* the wins and losses that the simulated state gained are those the metas
\* record.
C26_SynthesizedMatchesAccepted ==
    RanOnValidFixtures =>
        /\ run.ok
        /\ \A i \in DOMAIN call.fixtures :
              /\ Cardinality(PlayedMetas(i)) = 2
              /\ \A n \in PlayedMetas(i) :
                    run.all_metas[n].result = "WIN" =>
                        /\ \E o \in PlayedMetas(i) : run.all_metas[o].won = Some(TRUE)
                        /\ \E o \in PlayedMetas(i) : run.all_metas[o].won = Some(FALSE)
                        /\ run.all_metas[n].won # None
        /\ \A t \in DOMAIN pre :
              /\ heap["copy"][t].won - pre[t].won = MetaCount(t, Some(TRUE))
              /\ heap["copy"][t].lost - pre[t].lost = MetaCount(t, Some(FALSE))
        /\ \A k \in DOMAIN table :
              /\ table[k].won = heap["copy"][table[k].team].won
              /\ table[k].lost = heap["copy"][table[k].team].lost

\* two synthesized fixtures with use_nrr on: one won by the side batting
\* first, one by the side chasing with runs to spare
C26_Witness ==
    /\ RanOnValidFixtures /\ run.ok /\ call.use_nrr
    /\ Len(call.fixtures) = 2
    /\ \E n \in DOMAIN run.all_metas :
          run.all_metas[n].won = Some(TRUE) /\ run.all_metas[n].batted_first = Some(TRUE)
    /\ \E n \in DOMAIN run.all_metas :
          /\ run.all_metas[n].won = Some(TRUE)
          /\ run.all_metas[n].batted_first = Some(FALSE)
          /\ run.all_metas[n].overshoot_runs = Some(5)

=============================================================================
